---- MODULE Spec2Model ----
(***************************************************************************)
(* Model of the cipher framework of src/crypto/main.py: the alphabet       *)
(* codec, the five ciphers with their key generation, the Sender/Receiver  *)
(* round trip and the Hacker's brute-force search.                         *)
(*                                                                         *)
(* A character is its code point (ord); a text is a sequence of            *)
(* characters.  An optional value is None (<<>>) or Some(x) (<<x>>).       *)
(***************************************************************************)
EXTENDS Integers, Sequences, FiniteSets, TLC

\* ------------------------------------------------------------------ bounds
\* Longest clear text handed to a Sender.
MaxTextLen == 2
\* Bit length of the primes drawn by RSA.gen_key_pair (the program asks for 8).
PrimeBits == 4
\* Most lexicon words in a message handed to test_hacker.
MaxWords == 2
\* Lines of the longest lexicon the line sampling is followed on.
MaxLines == 4
\* Items put into a container before it is iterated.
MaxItems == 4
\* Operators and functions of the largest expression calculated.
MaxOps == 3

\* Debouncer(pin, initial_stable_value, stable_time): the time a reading must last, in
\* clock units (the program's default is 2000000 ns).
stable_time == 2
\* Calls of update, rise and fall kept in deb_log.
MaxLog == 5
\* Longest current_symbol and current_word process_signal is followed on.
MaxSymbolLen == 5
MaxWordLen == 1
\* Clock ticks in a millisecond (the program's clock counts 1000000 ns in one).
TicksPerMs == 2
\* The clock up to which run_decoding_loop is followed.
LoopTime == 22
\* Games the same two players are followed through, and calls of perform_game on one game.
MaxGames == 3
MaxPerform == 2
\* --------------------------------------------------------------- constants
AlphabetSize == 95
Offset == 32
NL == 10
SP == 32

\* Action.ROCK, Action.SCISSOR, Action.PAPER
ROCK == 0
SCISSOR == 1
PAPER == 2

None == <<>>
Some(x) == <<x>>

\* Characters the clear texts are built from: ' ', 'a' and '~' (values 0, 65, 94).
SampleChars == {32, 97, 126}
\* Two longer messages, "a~ " and "~~a a", longer than every lexicon line.
LongTexts == { <<97, 126, 32>>, <<126, 126, 97, 32, 97>> }
Texts == UNION {[1..n -> SampleChars] : n \in 0..MaxTextLen} \cup LongTexts

\* 'english_words.txt': "ab\nbc\n", "a\nca\nb\n" and "ab\nc" (no final newline).
LexFiles == { <<97, 98, 10, 98, 99, 10>>,
              <<97, 10, 99, 97, 10, 98, 10>>,
              <<97, 98, 10, 99>> }

\* ----------------------------------------------------------- alphabet codec
ascii_value(character) == character - Offset

from_ascii_value_off(value) == value + 33

from_ascii_value(value) == value + Offset

\* ------------------------------------------------------ modular arithmetic
\* crypto_utils.extended_gcd: iterative Euclid, (gcd, x, y) with a*x + m*y = gcd.
RECURSIVE egcd_loop(_, _, _, _, _, _)
egcd_loop(prev_r, r, prev_x, x, prev_y, y) ==
    IF r = 0 THEN <<prev_r, prev_x, prev_y>>
    ELSE LET q == prev_r \div r
         IN egcd_loop(r, prev_r - q * r, x, prev_x - q * x, y, prev_y - q * y)

extended_gcd(int_a, int_m) == egcd_loop(int_a, int_m, 1, 0, 0, 1)

strict_modular_inverse_nomod(int_a, int_m) ==
    LET g == extended_gcd(int_a, int_m)
    IN IF g[1] # 1 THEN None ELSE Some(g[2])

strict_modular_inverse(int_a, int_m) ==
    LET g == extended_gcd(int_a, int_m)
    IN IF g[1] # 1 THEN None ELSE Some(g[2] % int_m)

\* Python's pow(base, exponent, modulus), by squaring.
RECURSIVE pow(_, _, _)
pow(base, exponent, modulus) ==
    IF exponent = 0 THEN 1 % modulus
    ELSE LET h == pow(base, exponent \div 2, modulus)
             sq == (h * h) % modulus
         IN IF exponent % 2 = 1 THEN (sq * (base % modulus)) % modulus ELSE sq

\* ----------------------------------------------------------------- ciphers
Caesar_encode(key, clear_text) ==
    [i \in 1..Len(clear_text) |->
        from_ascii_value((ascii_value(clear_text[i]) + key) % AlphabetSize)]

Caesar_decode(key, encoded_text) == Caesar_encode(key, encoded_text)

Caesar_gen_decoding_key_off(encoding_key) == (94 - encoding_key) % AlphabetSize

Caesar_gen_decoding_key(encoding_key) == (95 - encoding_key) % AlphabetSize

Multiplicative_encode(key, clear_text) ==
    [i \in 1..Len(clear_text) |->
        from_ascii_value((ascii_value(clear_text[i]) * key) % AlphabetSize)]

Multiplicative_decode(key, encoded_text) == Multiplicative_encode(key, encoded_text)

Multiplicative_gen_decoding_key_m94(encoding_key) ==
    strict_modular_inverse(encoding_key, 94)

Multiplicative_gen_decoding_key(encoding_key) ==
    strict_modular_inverse(encoding_key, AlphabetSize)

Affine_encode(key, clear_text) ==
    Caesar_encode(key[2], Multiplicative_encode(key[1], clear_text))

Affine_decode_swapped(key, encoded_text) ==
    Caesar_decode(key[2], Multiplicative_decode(key[1], encoded_text))

Affine_decode(key, encoded_text) ==
    Multiplicative_decode(key[1], Caesar_decode(key[2], encoded_text))

Affine_gen_decoding_key(encoding_key) ==
    <<Multiplicative_gen_decoding_key(encoding_key[1]), Caesar_gen_decoding_key(encoding_key[2])>>

\* zip(clear_text, cycle(key)): nothing is produced for an empty key.
Unbreakable_encode(key, clear_text) ==
    IF Len(key) = 0 THEN <<>>
    ELSE [i \in 1..Len(clear_text) |->
            from_ascii_value((ascii_value(clear_text[i])
                              + ascii_value(key[((i - 1) % Len(key)) + 1])) % AlphabetSize)]

Unbreakable_decode(key, encoded_text) == Unbreakable_encode(key, encoded_text)

Unbreakable_gen_decoding_key_nomod(encoding_key) ==
    [i \in 1..Len(encoding_key) |-> from_ascii_value(95 - ascii_value(encoding_key[i]))]

Unbreakable_gen_decoding_key(encoding_key) ==
    [i \in 1..Len(encoding_key) |->
        from_ascii_value((95 - ascii_value(encoding_key[i])) % AlphabetSize)]

\* crypto_utils.blocks_from_text(text, 1): one integer block per character.
blocks_from_text(text) == [i \in 1..Len(text) |-> text[i]]

\* crypto_utils.text_from_blocks(blocks, 8): one character per 8-bit block.
text_from_blocks(blocks) == [i \in 1..Len(blocks) |-> blocks[i]]

RSA_encode(key, clear_text) ==
    LET blocks == blocks_from_text(clear_text)
    IN [i \in 1..Len(blocks) |-> pow(blocks[i], key[2], key[1])]

RSA_decode(key, encoded_text) ==
    text_from_blocks([i \in 1..Len(encoded_text) |-> pow(encoded_text[i], key[2], key[1])])

encode(cls, key, clear_text) ==
    CASE cls = "Caesar" -> Caesar_encode(key, clear_text)
      [] cls = "Multiplicative" -> Multiplicative_encode(key, clear_text)
      [] cls = "Affine" -> Affine_encode(key, clear_text)
      [] cls = "Unbreakable" -> Unbreakable_encode(key, clear_text)
      [] cls = "RSA" -> RSA_encode(key, clear_text)

decode(cls, key, encoded_text) ==
    CASE cls = "Caesar" -> Caesar_decode(key, encoded_text)
      [] cls = "Multiplicative" -> Multiplicative_decode(key, encoded_text)
      [] cls = "Affine" -> Affine_decode(key, encoded_text)
      [] cls = "Unbreakable" -> Unbreakable_decode(key, encoded_text)
      [] cls = "RSA" -> RSA_decode(key, encoded_text)

\* cls.gen_decoding_key(encoding_key) as it returns: a modular inverse is optional, it
\* is None when there is none.
gen_decoding_key(cls, encoding_key) ==
    CASE cls = "Caesar" -> Caesar_gen_decoding_key(encoding_key)
      [] cls = "Multiplicative" -> Multiplicative_gen_decoding_key(encoding_key)
      [] cls = "Affine" -> Affine_gen_decoding_key(encoding_key)
      [] cls = "Unbreakable" -> Unbreakable_gen_decoding_key(encoding_key)

\* ------------------------------------------------------------ lexicon file
\* The lines of a text file as iteration yields them, newline kept.
RECURSIVE lines_from(_, _)
lines_from(content, cur) ==
    IF content = <<>> THEN (IF cur = <<>> THEN <<>> ELSE <<cur>>)
    ELSE IF Head(content) = NL
         THEN <<Append(cur, NL)>> \o lines_from(Tail(content), <<>>)
         ELSE lines_from(Tail(content), Append(cur, Head(content)))

file_lines(content) == lines_from(content, <<>>)

\* crypto_utils.generate_random_prime(bits): the primes of that bit length.
IsPrime(n) == n > 1 /\ \A d \in 2..(n - 1) : n % d # 0

RECURSIVE TwoTo(_)
TwoTo(k) == IF k = 0 THEN 1 ELSE 2 * TwoTo(k - 1)

generate_random_prime(bits) ==
    {n \in TwoTo(bits - 1)..(TwoTo(bits) - 1) : IsPrime(n)}

Ciphers == {"Caesar", "Multiplicative", "Affine", "Unbreakable", "RSA"}

\* ------------------------------------------------------------------- state
VARIABLES
    cipher,         \* the Cipher class in use
    pc,             \* position of the session
    english_words,  \* content of english_words.txt once read
    encoding_key,   \* Multiplicative.gen_key_pair: local encoding_key
    decoding_key,   \* Multiplicative.gen_key_pair: local decoding_key (optional)
    prime_p,        \* RSA.gen_key_pair: local prime_p
    prime_q,        \* RSA.gen_key_pair: local prime_q
    rand_e,         \* RSA.gen_key_pair: local rand_e
    inverse_d,      \* RSA.gen_key_pair: local inverse_d (optional)
    line,           \* Unbreakable.gen_key_pair: the line kept so far
    num,            \* Unbreakable.gen_key_pair: enumerate counter of the next line
    keys,           \* the pair gen_key_pair returned, None before
    arg_key,        \* the key of a direct encode/decode call (optional)
    clear_text,     \* the message given to the Sender
    sent,           \* what the Sender produced
    received,       \* what the Receiver produced
    outcome,        \* "none", "returned" or "raised"
    h_key,          \* Hacker.operate_chipher: loop variable (key, num, i, or line number)
    h_j,            \* Hacker.operate_chipher: inner loop variable j of the Affine search
    tried,          \* the decoding keys the Hacker has decoded with, in order
    decoded_text,   \* Hacker.operate_chipher: local decoded_text of the last trial
    accepted,       \* what check_correctness returned for decoded_text
    result,         \* what operate_chipher returned (optional text)
    int_a,          \* strict_modular_inverse: argument int_a
    int_m,          \* strict_modular_inverse: argument int_m
    inverse,        \* strict_modular_inverse: the value returned (optional)
    inverse_done,   \* whether strict_modular_inverse has returned
    outcomes,       \* line sampling: every sequence of draws so far, with the line it keeps
    container,      \* the class of the container under test, "Queue" or "Stack"
    items,          \* Container._items
    inserted,       \* every item enqueued or pushed, in the order of the calls
    printed,        \* the (item, len) pairs the loop over the container has printed
    cont_pc,        \* "idle", "filling", "iterating" or "stopped" (StopIteration)
    expr,           \* the expression the caller of calculate_expression means
    expr_text,      \* calculate_expression: argument text
    input_queue,    \* Calculator.input_queue._items
    output_queue,   \* Calculator.output_queue._items
    stack_len,      \* eval_rpn: len(stack) at the assertion
    calc_value,     \* what calculate_expression returned (optional)
    calc_outcome,   \* "none", "returned" or "raised"
    calc_pc,        \* "idle", "start", "parsed", "built" or "done"
    deb_value,      \* Debouncer.value
    last_state,     \* Debouncer.__last_state
    fall_rise_state,\* Debouncer.__fall_rise_state
    time_changed,   \* Debouncer.__time_changed
    time_now,       \* what time.monotonic_ns() returned last
    deb_log,        \* the last calls of update, rise and fall with what they did
    deb_pc,         \* "idle" or "polling"
    prev_reading,   \* the pin reading of the previous update(), before the first update()
                    \* the stable value the Debouncer was constructed with
    differed_at,    \* the clock at the last update() whose reading differed from the
                    \* reading of the update() before it (optional)
    current_symbol, \* MorseDecoder.current_symbol
    current_word,   \* MorseDecoder.current_word
    last_rise,      \* MorseDecoder.__last_rise
    last_fall,      \* MorseDecoder.__last_fall
    signal,         \* what read_one_signal returned last, or the signal given to
                    \* process_signal ("NONE" for None)
    emitted,        \* the word the last process_signal call printed (optional)
    dec_pc,         \* "idle", "processing" or "looping"
    interval,       \* MorseDecoder.interval
    max_input_deviation,  \* MorseDecoder.max_input_deviation
    max_pause_deviation,  \* MorseDecoder.max_pause_deviation
    too_long_is_dash,     \* MorseDecoder.too_long_is_dash
    released_at,    \* the clock of the poll at which the last release was found (optional)
    long_pauses,    \* how often read_one_signal has returned LONG_PAUSE since that poll
    players,        \* the two Player objects: kind, index, remember, their_last_actions,
                    \* and what was asked of and told to each (asked, told)
    MostCommmon_counts,  \* MostCommmon.counts (class attribute), in insertion order
    Historian_counts,    \* Historian.counts (class attribute), in insertion order
    player1_action, \* SingleGame.player1_action (optional)
    player2_action, \* SingleGame.player2_action (optional)
    winner,         \* SingleGame.winner: "None", "P1", "P2" or "NEITHER"
    perform_calls,  \* calls of perform_game on this game
    player1_scores, \* Tournament.player1_scores
    player2_scores, \* Tournament.player2_scores
    number_of_games,\* Tournament.number_of_games
    games_played,   \* Tournament.games_played
    rps_pc          \* "idle", "game", "constructed", "tournament" or "returned"

cryptoVars == <<cipher, pc, english_words, encoding_key, decoding_key, prime_p, prime_q,
                rand_e, inverse_d, line, num, keys, arg_key, clear_text, sent, received,
                outcome>>

hackVars == <<h_key, h_j, tried, decoded_text, accepted, result>>
inverseVars == <<int_a, int_m, inverse, inverse_done>>
sampleVars == <<outcomes>>
containerVars == <<container, items, inserted, printed, cont_pc>>
calcVars == <<expr, expr_text, input_queue, output_queue, stack_len, calc_value, calc_outcome,
              calc_pc>>
morseVars == <<deb_value, last_state, fall_rise_state, time_changed, time_now, deb_log, deb_pc,
               prev_reading, differed_at>>
decoderParams == <<interval, max_input_deviation, max_pause_deviation, too_long_is_dash>>
pauseHistory == <<released_at, long_pauses>>
decoderVars == <<current_symbol, current_word, last_rise, last_fall, signal, emitted, dec_pc,
                 decoderParams, pauseHistory>>
playerVars == <<players, MostCommmon_counts, Historian_counts>>
gameVars == <<player1_action, player2_action, winner, perform_calls>>
tournamentVars == <<player1_scores, player2_scores, number_of_games, games_played>>
rpsVars == <<playerVars, gameVars, tournamentVars, rps_pc>>

\* What the actions of the cipher session leave alone.
notCrypto == <<hackVars, inverseVars, sampleVars, containerVars, calcVars, morseVars, decoderVars, rpsVars>>
\* What the Hacker's search leaves alone.
notHack == <<inverseVars, sampleVars, containerVars, calcVars, morseVars, decoderVars, rpsVars>>
\* What a call of strict_modular_inverse leaves alone.
notInverse == <<cryptoVars, hackVars, sampleVars, containerVars, calcVars, morseVars, decoderVars, rpsVars>>
\* What the line sampling leaves alone, besides the key generation's locals.
notSample == <<hackVars, inverseVars, containerVars, calcVars, morseVars, decoderVars, rpsVars>>
\* What the loop over a container leaves alone.
notContainer == <<cryptoVars, hackVars, inverseVars, sampleVars, calcVars, morseVars, decoderVars, rpsVars>>
\* What the Calculator leaves alone.
notCalc == <<cryptoVars, hackVars, inverseVars, sampleVars, containerVars, morseVars, decoderVars, rpsVars>>
\* What the Debouncer leaves alone.
notMorse == <<cryptoVars, hackVars, inverseVars, sampleVars, containerVars, calcVars,
              decoderVars, rpsVars>>
\* What process_signal leaves alone.
notDecoder == <<cryptoVars, hackVars, inverseVars, sampleVars, containerVars, calcVars,
                morseVars, rpsVars>>
\* What a game of Rock Paper Scissors leaves alone.
notRps == <<cryptoVars, hackVars, inverseVars, sampleVars, containerVars, calcVars, morseVars,
            decoderVars>>

keygenLocals == <<encoding_key, decoding_key, prime_p, prime_q, rand_e, inverse_d, line, num>>
textVars == <<clear_text, sent, received>>

\* Nothing generated, read, sent or received yet.
CryptoBlank ==
    /\ english_words = <<>>
    /\ encoding_key = 0
    /\ decoding_key = None
    /\ prime_p = 0
    /\ prime_q = 0
    /\ rand_e = 0
    /\ inverse_d = None
    /\ line = <<>>
    /\ num = 0
    /\ keys = None
    /\ arg_key = None
    /\ clear_text = <<>>
    /\ sent = <<>>
    /\ received = <<>>
    /\ outcome = "none"

CryptoInit ==
    /\ cipher \in Ciphers
    /\ pc = "start"
    /\ CryptoBlank

\* --------------------------------------------------------- key generation
\* What random.randrange(stop) can return.
randrange_closed(stop) == 0..stop

randrange(stop) == 0..(stop - 1)

\* The pairs Caesar.gen_key_pair can return.
Caesar_gen_key_pair == {<<k, Caesar_gen_decoding_key(k)>> : k \in 1..94}

CaesarGenKeyPair ==
    /\ pc = "start" /\ cipher = "Caesar"
    /\ \E pair \in Caesar_gen_key_pair : keys' = pair
    /\ pc' = "have_keys"
    /\ UNCHANGED <<notCrypto, cipher, english_words, keygenLocals, arg_key, textVars, outcome>>

\* Multiplicative.gen_key_pair, entered directly or from Affine.gen_key_pair.
MultiplicativeBegin ==
    /\ pc = "start" /\ cipher \in {"Multiplicative", "Affine"}
    /\ encoding_key' = 0
    /\ decoding_key' = None
    /\ pc' = "mult_loop"
    /\ UNCHANGED <<notCrypto, cipher, english_words, prime_p, prime_q, rand_e, inverse_d, line, num,
                   keys, arg_key, textVars, outcome>>

\* One pass of 'while decoding_key is None'.
MultiplicativeSample ==
    /\ pc = "mult_loop" /\ decoding_key = None
    /\ \E k \in 2..94 :
          /\ encoding_key' = k
          /\ decoding_key' = Multiplicative_gen_decoding_key(k)
    /\ UNCHANGED <<notCrypto, cipher, pc, english_words, prime_p, prime_q, rand_e, inverse_d, line, num,
                   keys, arg_key, textVars, outcome>>

MultiplicativeReturn ==
    /\ pc = "mult_loop" /\ decoding_key # None
    /\ IF cipher = "Multiplicative"
       THEN keys' = <<encoding_key, decoding_key[1]>>
       ELSE \E caesar_keys \in Caesar_gen_key_pair :
               keys' = << <<encoding_key, caesar_keys[1]>>, <<decoding_key[1], caesar_keys[2]>> >>
    /\ pc' = "have_keys"
    /\ UNCHANGED <<notCrypto, cipher, english_words, keygenLocals, arg_key, textVars, outcome>>

\* Unbreakable.gen_key_pair: open the file, keep its first line.
UnbreakableOpen ==
    /\ pc = "start" /\ cipher = "Unbreakable"
    /\ \E content \in LexFiles :
          /\ english_words' = content
          /\ line' = file_lines(content)[1]
    /\ num' = 2
    /\ pc' = "unb_scan"
    /\ UNCHANGED <<notCrypto, cipher, encoding_key, decoding_key, prime_p, prime_q, rand_e, inverse_d,
                   keys, arg_key, textVars, outcome>>

\* One pass of 'for num, a_line in enumerate(a_file, 2)'.
UnbreakableScan ==
    /\ pc = "unb_scan" /\ num <= Len(file_lines(english_words))
    /\ \E r \in randrange(num) :
          line' = IF r # 0 THEN line ELSE file_lines(english_words)[num]
    /\ num' = num + 1
    /\ UNCHANGED <<notCrypto, cipher, pc, english_words, encoding_key, decoding_key, prime_p, prime_q,
                   rand_e, inverse_d, keys, arg_key, textVars, outcome>>

UnbreakableReturn ==
    /\ pc = "unb_scan" /\ num > Len(file_lines(english_words))
    /\ keys' = <<line, Unbreakable_gen_decoding_key(line)>>
    /\ pc' = "have_keys"
    /\ UNCHANGED <<notCrypto, cipher, english_words, keygenLocals, arg_key, textVars, outcome>>

RSA_num(p, q) == p * q

RSA_phi_n1(p, q) == p * q - 1
RSA_phi(p, q) == (p - 1) * (q - 1)

\* One pass of 'while prime_p == prime_q'.
RSAPrimes ==
    /\ pc \in {"start", "rsa_loop"} /\ cipher = "RSA"
    /\ prime_p = prime_q
    /\ \E p \in generate_random_prime(PrimeBits), q \in generate_random_prime(PrimeBits) :
          /\ prime_p' = p
          /\ prime_q' = q
    /\ pc' = "rsa_loop"
    /\ UNCHANGED <<notCrypto, cipher, english_words, encoding_key, decoding_key, rand_e, inverse_d, line,
                   num, keys, arg_key, textVars, outcome>>

\* One pass of 'while inverse_d is None'.
RSAExponent ==
    /\ pc = "rsa_loop" /\ prime_p # prime_q /\ inverse_d = None
    /\ \E e \in 3..(RSA_phi(prime_p, prime_q) - 1) :
          /\ rand_e' = e
          /\ inverse_d' = strict_modular_inverse(e, RSA_phi(prime_p, prime_q))
    /\ UNCHANGED <<notCrypto, cipher, pc, english_words, encoding_key, decoding_key, prime_p, prime_q,
                   line, num, keys, arg_key, textVars, outcome>>

RSAReturn ==
    /\ pc = "rsa_loop" /\ prime_p # prime_q /\ inverse_d # None
    /\ keys' = << <<RSA_num(prime_p, prime_q), rand_e>>,
                  <<RSA_num(prime_p, prime_q), inverse_d[1]>> >>
    /\ pc' = "have_keys"
    /\ UNCHANGED <<notCrypto, cipher, english_words, keygenLocals, arg_key, textVars, outcome>>

\* --------------------------------------------------------- Sender, Receiver
\* Sender.operate_chipher on a message, with the encoding key of the pair.
Send ==
    /\ pc = "have_keys"
    /\ \E message \in Texts :
          /\ clear_text' = message
          /\ sent' = encode(cipher, keys[1], message)
    /\ pc' = "sent"
    /\ outcome' = "returned"
    /\ UNCHANGED <<notCrypto, cipher, english_words, keygenLocals, keys, arg_key, received>>

\* Receiver.operate_chipher on what was sent, with the decoding key of the pair.
Receive ==
    /\ pc = "sent"
    /\ received' = decode(cipher, keys[2], sent)
    /\ pc' = "received"
    /\ UNCHANGED <<notCrypto, cipher, english_words, keygenLocals, keys, arg_key, clear_text, sent,
                   outcome>>

\* ------------------------------------------- direct calls with a caller's key
CallerInts == {-1, 0, 1, 3, 5, 19, 94, 95, 96, 100}

CallerKeys(cls) ==
    IF cls = "Affine"
    THEN {Some(<<m, c>>) : m \in CallerInts, c \in {-1, 0, 2, 95}} \cup {None}
    ELSE {Some(k) : k \in CallerInts} \cup {None}

\* Whether cls.encode(key, text) raises: arithmetic on None, or None[1].
encode_raises(cls, key, text) ==
    key = None /\ (cls = "Affine" \/ text # <<>>)

CallEncode ==
    /\ pc = "start" /\ cipher \in {"Caesar", "Multiplicative", "Affine"}
    /\ \E key \in CallerKeys(cipher), text \in Texts :
          /\ arg_key' = key
          /\ clear_text' = text
          /\ IF encode_raises(cipher, key, text)
             THEN outcome' = "raised" /\ sent' = <<>>
             ELSE outcome' = "returned" /\ sent' = encode(cipher, key[1], text)
    /\ pc' = "encode_called"
    /\ UNCHANGED <<notCrypto, cipher, english_words, keygenLocals, keys, received>>

CallDecode ==
    /\ pc = "start" /\ cipher \in {"Caesar", "Multiplicative", "Affine"}
    /\ \E key \in CallerKeys(cipher), text \in Texts :
          /\ arg_key' = key
          /\ sent' = text
          /\ IF encode_raises(cipher, key, text)
             THEN outcome' = "raised" /\ received' = <<>>
             ELSE outcome' = "returned" /\ received' = decode(cipher, key[1], text)
    /\ pc' = "decode_called"
    /\ UNCHANGED <<notCrypto, cipher, english_words, keygenLocals, keys, clear_text>>

CryptoNext ==
    \/ CaesarGenKeyPair
    \/ MultiplicativeBegin
    \/ MultiplicativeSample
    \/ MultiplicativeReturn
    \/ UnbreakableOpen
    \/ UnbreakableScan
    \/ UnbreakableReturn
    \/ RSAPrimes
    \/ RSAExponent
    \/ RSAReturn
    \/ Send
    \/ Receive
    \/ CallEncode
    \/ CallDecode

HackIdle ==
    /\ h_key = 0
    /\ h_j = 0
    /\ tried = <<>>
    /\ decoded_text = <<>>
    /\ accepted = FALSE
    /\ result = None

InverseIdle ==
    /\ int_a = 0
    /\ int_m = 0
    /\ inverse = None
    /\ inverse_done = FALSE

SampleIdle == outcomes = {}

ContainerIdle ==
    /\ container = "Queue"
    /\ items = <<>>
    /\ inserted = <<>>
    /\ printed = <<>>
    /\ cont_pc = "idle"

CalcIdle ==
    /\ expr = <<>>
    /\ expr_text = <<>>
    /\ input_queue = <<>>
    /\ output_queue = <<>>
    /\ stack_len = 0
    /\ calc_value = None
    /\ calc_outcome = "none"
    /\ calc_pc = "idle"

MorseIdle ==
    /\ deb_value = "HIGH"
    /\ last_state = "HIGH"
    /\ fall_rise_state = "UNCHANGED"
    /\ time_changed = 0
    /\ time_now = 0
    /\ deb_log = <<>>
    /\ deb_pc = "idle"
    /\ prev_reading = "HIGH"
    /\ differed_at = None

DecoderIdle ==
    /\ current_symbol = ""
    /\ current_word = ""
    /\ last_rise = 0
    /\ last_fall = 0
    /\ signal = "NONE"
    /\ emitted = None
    /\ dec_pc = "idle"
    /\ interval = 1
    /\ max_input_deviation = 0
    /\ max_pause_deviation = 0
    /\ too_long_is_dash = FALSE
    /\ released_at = None
    /\ long_pauses = 0

RpsIdle ==
    /\ players = <<>>
    /\ MostCommmon_counts = <<>>
    /\ Historian_counts = <<>>
    /\ player1_action = None
    /\ player2_action = None
    /\ winner = "None"
    /\ perform_calls = 0
    /\ player1_scores = <<>>
    /\ player2_scores = <<>>
    /\ number_of_games = 0
    /\ games_played = 0
    /\ rps_pc = "idle"

\* Everything but the cipher session and the Calculator is at rest.
OthersIdle == HackIdle /\ InverseIdle /\ SampleIdle /\ ContainerIdle

vars == <<cryptoVars, hackVars, inverseVars, sampleVars, containerVars, calcVars, morseVars, decoderVars, rpsVars>>

Init == CryptoInit /\ OthersIdle /\ CalcIdle /\ MorseIdle /\ DecoderIdle /\ RpsIdle

Next == CryptoNext

Spec == Init /\ [][Next]_vars

\* ------------------------------------------------------------------ Hacker
\* str.split(' '): the pieces between single spaces, empty pieces kept.
RECURSIVE split_from(_, _)
split_from(text, cur) ==
    IF text = <<>> THEN <<cur>>
    ELSE IF Head(text) = SP
         THEN <<cur>> \o split_from(Tail(text), <<>>)
         ELSE split_from(Tail(text), Append(cur, Head(text)))

split(text) == split_from(text, <<>>)

\* Python's 'needle in haystack' on strings: needle occurs as a substring.
in_str(needle, haystack) ==
    \E i \in 0..(Len(haystack) - Len(needle)) :
        SubSeq(haystack, i + 1, i + Len(needle)) = needle

\* Hacker.check_correctness, on self.english_words.
check_correctness(text) ==
    \A i \in 1..Len(split(text)) : in_str(Append(split(text)[i], NL), english_words)

\* key[:-1]
drop_last(key) == SubSeq(key, 1, Len(key) - 1)

\* The words of the lexicon: its lines without their line terminator.
strip_newline(a_line) ==
    IF a_line # <<>> /\ a_line[Len(a_line)] = NL THEN drop_last(a_line) ELSE a_line

lexicon_words(content) ==
    {strip_newline(file_lines(content)[i]) : i \in 1..Len(file_lines(content))}

RECURSIVE join(_)
join(words) ==
    IF Len(words) = 1 THEN words[1]
    ELSE words[1] \o <<SP>> \o join(Tail(words))

\* Messages of lexicon words separated by single spaces.
word_messages(content) ==
    {join(ws) : ws \in UNION {[1..n -> lexicon_words(content)] : n \in 1..MaxWords}}

\* Messages that are not made of lexicon words: "", "ac", "~a" and "b cab".
Gibberish == { <<>>, <<97, 99>>, <<126, 97>>, <<98, 32, 99, 97, 98>> }

\* The Affine search is long: its messages are the single words and "b cab".
HackMessages(cls, content) ==
    IF cls = "Affine"
    THEN lexicon_words(content) \cup { <<98, 32, 99, 97, 98>> }
    ELSE word_messages(content) \cup Gibberish

\* The keys test_hacker is called with, where it is not left to gen_key_pair:
\* Caesar 0, Multiplicative 1, Affine (7, 90), Unbreakable "ab", RSA (143, 7).
GivenKeys(cls) ==
    CASE cls = "Caesar" -> {0}
      [] cls = "Multiplicative" -> {1}
      [] cls = "Affine" -> {<<7, 90>>}
      [] cls = "Unbreakable" -> {<<97, 98>>}
      [] cls = "RSA" -> {<<143, 7>>}

\* test_hacker(cipher, message, key) with a key.
TestHackerGivenKey ==
    /\ pc = "given"
    /\ \E key \in GivenKeys(cipher) :
          /\ keys' = <<key, None>>
          /\ arg_key' = Some(key)
    /\ pc' = "have_keys"
    /\ UNCHANGED <<notHack, hackVars, cipher, english_words, keygenLocals, textVars, outcome>>

first_key_one(cls) == IF cls = "Affine" THEN 0 ELSE 1

\* First value of the loop variable of the branch of operate_chipher for cls.
first_key(cls) == IF cls \in {"Multiplicative", "Unbreakable"} THEN 1 ELSE 0

\* test_hacker: encode the message, construct the Hacker (which reads the lexicon).
TestHackerEncode ==
    /\ pc = "have_keys"
    /\ \E content \in (IF english_words = <<>> THEN LexFiles ELSE {english_words}) :
          /\ english_words' = content
          /\ \E message \in HackMessages(cipher, content) :
                /\ clear_text' = message
                /\ sent' = encode(cipher, keys[1], message)
    /\ h_key' = first_key(cipher)
    /\ h_j' = 0
    /\ pc' = "hacking"
    /\ UNCHANGED <<notHack, cipher, keygenLocals, keys, arg_key, received, outcome,
                   tried, decoded_text, accepted, result>>

\* The decode trial shared by the branches: decode, ask the oracle, return on
\* acceptance, else move the loop variables on.
Trial(key, text, next_key, next_j) ==
    /\ tried' = Append(tried, key)
    /\ decoded_text' = text
    /\ accepted' = check_correctness(decoded_text')
    /\ IF accepted'
       THEN /\ result' = Some(decoded_text')
            /\ outcome' = "returned"
            /\ pc' = "hack_done"
            /\ UNCHANGED <<h_key, h_j>>
       ELSE /\ h_key' = next_key
            /\ h_j' = next_j
            /\ UNCHANGED <<result, outcome, pc>>

caesar_range_stop_short == 95 - 1
caesar_range_stop == 95

\* 'for key in range(0, 95)' of the Caesar branch.
HackCaesar ==
    /\ pc = "hacking" /\ cipher = "Caesar"
    /\ h_key < caesar_range_stop
    /\ Trial(h_key, Caesar_decode(h_key, sent), h_key + 1, h_j)
    /\ UNCHANGED <<notHack, cipher, english_words, keygenLocals, keys, arg_key, textVars>>

\* 'for num in range(1, 95)' of the Multiplicative branch.
HackMultiplicative ==
    /\ pc = "hacking" /\ cipher = "Multiplicative"
    /\ h_key < 95
    /\ LET key == strict_modular_inverse(h_key, 95)
       IN IF key = None
          THEN /\ h_key' = h_key + 1
               /\ UNCHANGED <<h_j, tried, decoded_text, accepted, result, outcome, pc>>
          ELSE Trial(key[1], Multiplicative_decode(key[1], sent), h_key + 1, h_j)
    /\ UNCHANGED <<notHack, cipher, english_words, keygenLocals, keys, arg_key, textVars>>

\* 'for i in range(0, 95)' with 'for j in range(0, 95)' of the Affine branch.
HackAffine ==
    /\ pc = "hacking" /\ cipher = "Affine"
    /\ h_key < 95
    /\ LET inv == strict_modular_inverse(h_key, 95)
       IN IF inv = None
          THEN /\ h_key' = h_key + 1
               /\ UNCHANGED <<h_j, tried, decoded_text, accepted, result, outcome, pc>>
          ELSE LET key == <<inv[1], h_j>>
               IN Trial(key, Affine_decode(key, sent),
                        IF h_j = 94 THEN h_key + 1 ELSE h_key,
                        IF h_j = 94 THEN 0 ELSE h_j + 1)
    /\ UNCHANGED <<notHack, cipher, english_words, keygenLocals, keys, arg_key, textVars>>

\* 'for key in io.StringIO(self.english_words)' of the Unbreakable branch.
HackUnbreakable ==
    /\ pc = "hacking" /\ cipher = "Unbreakable"
    /\ h_key <= Len(file_lines(english_words))
    /\ LET key == drop_last(file_lines(english_words)[h_key])
           decode_key == Unbreakable_gen_decoding_key(key)
       IN Trial(decode_key, Unbreakable_decode(decode_key, sent), h_key + 1, h_j)
    /\ UNCHANGED <<notHack, cipher, english_words, keygenLocals, keys, arg_key, textVars>>

exhausted_early(cls) ==
    CASE cls \in {"Caesar"} -> h_key >= caesar_range_stop
      [] cls \in {"Multiplicative", "Affine"} -> h_key >= 94
      [] cls = "Unbreakable" -> h_key > Len(file_lines(english_words))
      [] OTHER -> TRUE

\* Whether the loop of the branch for cls has run out (no branch at all for RSA).
exhausted(cls) ==
    CASE cls \in {"Caesar"} -> h_key >= caesar_range_stop
      [] cls \in {"Multiplicative", "Affine"} -> h_key >= 95
      [] cls = "Unbreakable" -> h_key > Len(file_lines(english_words))
      [] OTHER -> TRUE

\* The final 'return None' of operate_chipher.
HackReturnNone ==
    /\ pc = "hacking"
    /\ exhausted(cipher)
    /\ result' = None
    /\ outcome' = "returned"
    /\ pc' = "hack_done"
    /\ UNCHANGED <<notHack, cipher, english_words, keygenLocals, keys, arg_key, textVars,
                   h_key, h_j, tried, decoded_text, accepted>>

\* test_hacker is entered with gen_key_pair's key ("start") or a given key ("given").
HackEntries ==
    ({"Caesar", "Multiplicative", "Unbreakable"} \X {"start"}) \cup (Ciphers \X {"given"})

HackInit ==
    /\ \E entry \in HackEntries : cipher = entry[1] /\ pc = entry[2]
    /\ CryptoBlank
    /\ OthersIdle
    /\ CalcIdle
    /\ MorseIdle
    /\ DecoderIdle
    /\ RpsIdle

HackNext ==
    \/ CaesarGenKeyPair
    \/ MultiplicativeBegin
    \/ MultiplicativeSample
    \/ MultiplicativeReturn
    \/ UnbreakableOpen
    \/ UnbreakableScan
    \/ UnbreakableReturn
    \/ TestHackerGivenKey
    \/ TestHackerEncode
    \/ HackCaesar
    \/ HackMultiplicative
    \/ HackAffine
    \/ HackUnbreakable
    \/ HackReturnNone

SpecHack == HackInit /\ [][HackNext]_vars

\* ------------------------------------------------- strict_modular_inverse
InverseInit ==
    /\ int_a \in 1..94
    /\ int_m = AlphabetSize
    /\ inverse = None
    /\ inverse_done = FALSE
    /\ cipher = "Multiplicative"
    /\ pc = "inverse"
    /\ CryptoBlank
    /\ HackIdle
    /\ SampleIdle
    /\ ContainerIdle
    /\ CalcIdle
    /\ MorseIdle
    /\ DecoderIdle
    /\ RpsIdle

InverseCall ==
    /\ pc = "inverse" /\ ~inverse_done
    /\ inverse' = strict_modular_inverse(int_a, int_m)
    /\ inverse_done' = TRUE
    /\ UNCHANGED <<notInverse, int_a, int_m>>

InverseNext == InverseCall

SpecInverse == InverseInit /\ [][InverseNext]_vars

\* ------------------------------------- keys derived from a caller's own key
\* The encoding keys a caller brings: every Caesar key, every multiplicative key
\* (invertible or not), every Affine pair, and for Unbreakable the alphabet strings
\* (the empty one included) and "a\n", a lexicon line with its newline.
OwnKeys(cls) ==
    CASE cls = "Caesar" -> 0..94
      [] cls = "Multiplicative" -> 1..94
      [] cls = "Affine" -> (1..94) \X (0..94)
      [] cls = "Unbreakable" -> Texts \cup { <<97, NL>> }

\* Whether a decoding key lacks its modular inverse.
key_missing(cls, key) ==
    CASE cls = "Multiplicative" -> key = None
      [] cls = "Affine" -> key[1] = None
      [] OTHER -> FALSE

\* The decoding key as decode uses it, when nothing is missing.
key_value(cls, key) ==
    CASE cls = "Multiplicative" -> key[1]
      [] cls = "Affine" -> <<key[1][1], key[2]>>
      [] OTHER -> key

\* (key, cipher.gen_decoding_key(key)) for a key the caller chose.
CallGenDecodingKey ==
    /\ pc = "own" /\ cipher \in {"Caesar", "Multiplicative", "Affine", "Unbreakable"}
    /\ \E key \in OwnKeys(cipher) :
          /\ arg_key' = Some(key)
          /\ keys' = <<key, gen_decoding_key(cipher, key)>>
    /\ pc' = "own_keys"
    /\ UNCHANGED <<notCrypto, cipher, english_words, keygenLocals, textVars, outcome>>

\* gen_decoding_key applied to the decoding key it returned.
CallGenDecodingKeyAgain ==
    /\ pc = "own_keys" /\ ~key_missing(cipher, keys[2])
    /\ keys' = <<key_value(cipher, keys[2]),
                 gen_decoding_key(cipher, key_value(cipher, keys[2]))>>
    /\ pc' = "own_keys_back"
    /\ UNCHANGED <<notCrypto, cipher, english_words, keygenLocals, arg_key, textVars, outcome>>

\* cipher.encode(key, message) with the caller's key.
OwnEncode ==
    /\ pc = "own_keys"
    /\ \E message \in Texts :
          /\ clear_text' = message
          /\ sent' = encode(cipher, keys[1], message)
    /\ outcome' = "returned"
    /\ pc' = "own_sent"
    /\ UNCHANGED <<notCrypto, cipher, english_words, keygenLocals, keys, arg_key, received>>

\* cipher.decode(decoding key, sent): arithmetic on a missing inverse raises as soon
\* as there is a character to decode.
OwnDecode ==
    /\ pc = "own_sent"
    /\ IF key_missing(cipher, keys[2])
       THEN /\ received' = <<>>
            /\ outcome' = IF sent = <<>> THEN "returned" ELSE "raised"
       ELSE /\ received' = decode(cipher, key_value(cipher, keys[2]), sent)
            /\ outcome' = "returned"
    /\ pc' = "own_received"
    /\ UNCHANGED <<notCrypto, cipher, english_words, keygenLocals, keys, arg_key, clear_text, sent>>

OwnInit ==
    /\ cipher \in {"Caesar", "Multiplicative", "Affine", "Unbreakable"}
    /\ pc = "own"
    /\ CryptoBlank
    /\ OthersIdle
    /\ CalcIdle
    /\ MorseIdle
    /\ DecoderIdle
    /\ RpsIdle

OwnNext ==
    \/ CallGenDecodingKey
    \/ CallGenDecodingKeyAgain
    \/ OwnEncode
    \/ OwnDecode

SpecOwn == OwnInit /\ [][OwnNext]_vars

\* ------------------------------ the line sampling, over all outcomes at once
\* Lexicons of 1 to MaxLines different lines "a\n", "b\n", ... in any order.
SampleFiles ==
    LET orders == UNION { {f \in [1..n -> 1..MaxLines] :
                              \A i, j \in 1..n : f[i] = f[j] => i = j} : n \in 1..MaxLines }
    IN { [k \in 1..(2 * Len(f)) |-> IF k % 2 = 1 THEN 96 + f[(k + 1) \div 2] ELSE NL] :
            f \in orders }

\* 'line = next(a_file)': no draw yet, the first line is kept.
SampleOpen ==
    /\ pc = "sample" /\ cipher = "Unbreakable"
    /\ \E content \in SampleFiles :
          /\ english_words' = content
          /\ outcomes' = { << <<>>, file_lines(content)[1] >> }
    /\ num' = 2
    /\ pc' = "sample_scan"
    /\ UNCHANGED <<notSample, cipher, encoding_key, decoding_key, prime_p, prime_q,
                   rand_e, inverse_d, line, keys, arg_key, textVars, outcome>>

\* One pass of the loop, followed for every sequence of draws so far and every value
\* random.randrange(num) can return: the line is replaced when the draw is 0.
SampleScan ==
    /\ pc = "sample_scan" /\ num <= Len(file_lines(english_words))
    /\ outcomes' = { <<Append(o[1], r),
                       IF r # 0 THEN o[2] ELSE file_lines(english_words)[num]>> :
                        o \in outcomes, r \in randrange(num) }
    /\ num' = num + 1
    /\ UNCHANGED <<notSample, cipher, pc, english_words, encoding_key, decoding_key,
                   prime_p, prime_q, rand_e, inverse_d, line, keys, arg_key, textVars, outcome>>

\* The file is exhausted.
SampleReturn ==
    /\ pc = "sample_scan" /\ num > Len(file_lines(english_words))
    /\ pc' = "sample_done"
    /\ UNCHANGED <<notSample, sampleVars, cipher, english_words, keygenLocals, keys,
                   arg_key, textVars, outcome>>

SampleInit ==
    /\ cipher = "Unbreakable"
    /\ pc = "sample"
    /\ CryptoBlank
    /\ OthersIdle
    /\ CalcIdle
    /\ MorseIdle
    /\ DecoderIdle
    /\ RpsIdle

SampleNext ==
    \/ SampleOpen
    \/ SampleScan
    \/ SampleReturn

SpecSample == SampleInit /\ [][SampleNext]_vars

\* ============================================================== calculator
\* --------------------------------------------------------------- containers
\* No cipher session is running.
CryptoIdle ==
    /\ cipher = "Caesar"
    /\ pc = "idle"
    /\ CryptoBlank

\* list.pop() and list.pop(0): the item removed and the list left.
Stack_pop(list) == <<list[Len(list)], SubSeq(list, 1, Len(list) - 1)>>

Stack_push(list, item) == Append(list, item)

Stack_peek(list) == list[Len(list)]

Queue_enqueue(list, item) == Append(list, item)

Queue_dequeue_last(list) == <<list[Len(list)], SubSeq(list, 1, Len(list) - 1)>>

Queue_dequeue(list) == <<list[1], SubSeq(list, 2, Len(list))>>

is_empty(list) == Len(list) = 0

\* The items test_queue and test_stack insert.
ItemValues == {1, 3, 5, 7}

\* queue.enqueue(item) or stack.push(item).
ContainerInsert ==
    /\ cont_pc = "filling" /\ Len(items) < MaxItems
    /\ \E item \in ItemValues :
          /\ items' = IF container = "Queue" THEN Queue_enqueue(items, item)
                                             ELSE Stack_push(items, item)
          /\ inserted' = Append(inserted, item)
    /\ UNCHANGED <<notContainer, container, printed, cont_pc>>

\* One round of 'for item in container': __next__, then the body printing the item and
\* len(container).
ContainerNext ==
    /\ cont_pc \in {"filling", "iterating"}
    /\ IF is_empty(items)
       THEN /\ cont_pc' = "stopped"
            /\ UNCHANGED <<items, printed>>
       ELSE LET yield == IF container = "Queue" THEN Queue_dequeue(items) ELSE Stack_pop(items)
            IN /\ items' = yield[2]
               /\ printed' = Append(printed, <<yield[1], Len(items')>>)
               /\ cont_pc' = "iterating"
    /\ UNCHANGED <<notContainer, container, inserted>>

ContainerInit ==
    /\ container \in {"Queue", "Stack"}
    /\ items = <<>>
    /\ inserted = <<>>
    /\ printed = <<>>
    /\ cont_pc = "filling"
    /\ CryptoIdle
    /\ HackIdle
    /\ InverseIdle
    /\ SampleIdle
    /\ CalcIdle
    /\ MorseIdle
    /\ DecoderIdle
    /\ RpsIdle

ContainerLoop ==
    \/ ContainerInsert
    \/ ContainerNext

SpecContainer == ContainerInit /\ [][ContainerLoop]_vars

\* --------------------------------------------------------------- Calculator
\* Calculator.operators with their strength, and Calculator.functions.
OperatorNames == {"add", "sub", "mul", "div"}

FunctionNames == {"exp", "log", "sin", "cos", "sqrt"}

strength(name) == IF name \in {"add", "sub"} THEN 0 ELSE 1

\* The spelling of a name, as code points.
spell(name) ==
    CASE name = "add" -> <<97, 100, 100>>
      [] name = "sub" -> <<115, 117, 98>>
      [] name = "mul" -> <<109, 117, 108>>
      [] name = "div" -> <<100, 105, 118>>
      [] name = "exp" -> <<101, 120, 112>>
      [] name = "log" -> <<108, 111, 103>>
      [] name = "sin" -> <<115, 105, 110>>
      [] name = "cos" -> <<99, 111, 115>>
      [] name = "sqrt" -> <<115, 113, 114, 116>>

\* str.lower and str.upper on ASCII text.
lower(word) ==
    [i \in 1..Len(word) |-> IF word[i] \in 65..90 THEN word[i] + 32 ELSE word[i]]

upper(word) ==
    [i \in 1..Len(word) |-> IF word[i] \in 97..122 THEN word[i] - 32 ELSE word[i]]

isalpha(char) == char \in (65..90) \cup (97..122)

\* text[index].isdecimal() or text[index] == '-' or text[index] == '.'
isnumberchar(char) == char \in (48..57) \cup {45, 46}

\* The index after the run of characters of one class that starts at index.
RECURSIVE run_end(_, _, _)
run_end(text, index, alpha) ==
    IF index <= Len(text) /\ (IF alpha THEN isalpha(text[index]) ELSE isnumberchar(text[index]))
    THEN run_end(text, index + 1, alpha)
    ELSE index

\* int(num): an optional '-' and one or more digits; anything else raises ValueError.
is_int_literal(numeral) ==
    LET digits == IF numeral # <<>> /\ numeral[1] = 45 THEN Tail(numeral) ELSE numeral
    IN Len(digits) >= 1 /\ \A i \in 1..Len(digits) : digits[i] \in 48..57

RECURSIVE digits_value(_)
digits_value(digits) ==
    IF digits = <<>> THEN 0
    ELSE digits_value(SubSeq(digits, 1, Len(digits) - 1)) * 10 + (digits[Len(digits)] - 48)

int(numeral) ==
    IF numeral[1] = 45 THEN 0 - digits_value(Tail(numeral)) ELSE digits_value(numeral)

\* Elements of the queues: <<"num", n>>, <<"op", name>>, <<"fn", name>> and the
\* characters <<"chr", 40>> for '(' and <<"chr", 41>> for ')'.
is_number(elem) == elem[1] = "num"
is_function(elem) == elem[1] = "fn"
is_operator(elem) == elem[1] = "op"
is_char(elem, char) == elem[1] = "chr" /\ elem[2] = char

\* Calculator.parse_text from text[index] on: <<"returned", queue>>, or <<"raised", queue>>
\* with what was enqueued before the exception ('except TypeError' catches nothing that
\* int() raises on a str).
RECURSIVE parse_from(_, _, _)
parse_from(text, index, queue) ==
    IF index > Len(text) THEN <<"returned", queue>>
    ELSE IF text[index] = 32 THEN parse_from(text, index + 1, queue)
    ELSE IF isalpha(text[index])
    THEN LET stop == run_end(text, index, TRUE)
             word == lower(SubSeq(text, index, stop - 1))
         IN IF \E name \in OperatorNames : spell(name) = word
            THEN parse_from(text, stop, Queue_enqueue(queue,
                     <<"op", CHOOSE name \in OperatorNames : spell(name) = word>>))
            ELSE IF \E name \in FunctionNames : spell(name) = word
            THEN parse_from(text, stop, Queue_enqueue(queue,
                     <<"fn", CHOOSE name \in FunctionNames : spell(name) = word>>))
            ELSE <<"raised", queue>>
    ELSE IF isnumberchar(text[index])
    THEN LET stop == run_end(text, index, FALSE)
             num_str == SubSeq(text, index, stop - 1)
         IN IF is_int_literal(num_str)
            THEN parse_from(text, stop, Queue_enqueue(queue, <<"num", int(num_str)>>))
            ELSE <<"raised", queue>>
    ELSE IF text[index] \in {40, 41}
    THEN parse_from(text, index + 1, Queue_enqueue(queue, <<"chr", text[index]>>))
    ELSE <<"raised", queue>>

parse_text(text) == parse_from(text, 1, <<>>)

\* build_rpn, elem == ')': pop to the output until '(' is on top, then pop the '('.
\* peek on an empty stack raises IndexError.
RECURSIVE pop_to_paren(_, _)
pop_to_paren(op_stack, output) ==
    IF is_empty(op_stack) THEN <<"raised", op_stack, output>>
    ELSE IF is_char(Stack_peek(op_stack), 40)
    THEN <<"returned", Stack_pop(op_stack)[2], output>>
    ELSE pop_to_paren(Stack_pop(op_stack)[2], Queue_enqueue(output, Stack_pop(op_stack)[1]))

\* build_rpn, elem an Operator: pop to the output until the stack is empty or a weaker
\* operator or '(' is on top.
RECURSIVE pop_not_weaker(_, _, _)
pop_not_weaker(op_stack, output, elem) ==
    IF \/ is_empty(op_stack)
       \/ (is_operator(Stack_peek(op_stack))
           /\ strength(Stack_peek(op_stack)[2]) < strength(elem[2]))
       \/ is_char(Stack_peek(op_stack), 40)
    THEN <<op_stack, output>>
    ELSE pop_not_weaker(Stack_pop(op_stack)[2],
                        Queue_enqueue(output, Stack_pop(op_stack)[1]), elem)

\* 'for elem in op_stack: self.output_queue.enqueue(elem)'.
RECURSIVE drain(_, _)
drain(op_stack, output) ==
    IF is_empty(op_stack) THEN output
    ELSE drain(Stack_pop(op_stack)[2], Queue_enqueue(output, Stack_pop(op_stack)[1]))

\* The loop of build_rpn over the input queue, which the iteration empties:
\* <<"returned" or "raised", input queue left, output queue>>.
RECURSIVE build_loop(_, _, _)
build_loop(input, op_stack, output) ==
    IF is_empty(input) THEN <<"returned", input, drain(op_stack, output)>>
    ELSE LET elem == Queue_dequeue(input)[1]
             rest == Queue_dequeue(input)[2]
         IN IF is_number(elem) THEN build_loop(rest, op_stack, Queue_enqueue(output, elem))
            ELSE IF is_function(elem) THEN build_loop(rest, Stack_push(op_stack, elem), output)
            ELSE IF is_char(elem, 40) THEN build_loop(rest, Stack_push(op_stack, elem), output)
            ELSE IF is_char(elem, 41)
            THEN LET popped == pop_to_paren(op_stack, output)
                 IN IF popped[1] = "raised" THEN <<"raised", rest, popped[3]>>
                    ELSE build_loop(rest, popped[2], popped[3])
            ELSE LET popped == pop_not_weaker(op_stack, output, elem)
                 IN build_loop(rest, Stack_push(popped[1], elem), popped[2])

build_rpn(input) == build_loop(input, <<>>, <<>>)

\* Function.execute and Operator.execute. Integers are added, subtracted and multiplied;
\* a quotient and the value of a function stay terms, <<"op", "div", a, b>> and
\* <<"fn", name, a>>, and so does any operation on a term.
Function_execute(name, element) == <<"fn", name, element>>

Operator_execute(name, num_a, num_b) ==
    IF is_number(num_a) /\ is_number(num_b) /\ name # "div"
    THEN <<"num", CASE name = "add" -> num_a[2] + num_b[2]
                    [] name = "sub" -> num_a[2] - num_b[2]
                    [] name = "mul" -> num_a[2] * num_b[2]>>
    ELSE <<"op", name, num_a, num_b>>

\* The loop of eval_rpn over the output queue: <<"returned" or "raised", stack>>;
\* pop on an empty stack raises IndexError.
RECURSIVE eval_loop(_, _)
eval_loop(output, stack) ==
    IF is_empty(output) THEN <<"returned", stack>>
    ELSE LET elem == Queue_dequeue(output)[1]
             rest == Queue_dequeue(output)[2]
         IN IF is_number(elem) THEN eval_loop(rest, Stack_push(stack, elem))
            ELSE IF is_function(elem)
            THEN IF Len(stack) < 1 THEN <<"raised", stack>>
                 ELSE eval_loop(rest, Stack_push(Stack_pop(stack)[2],
                                         Function_execute(elem[2], Stack_pop(stack)[1])))
            ELSE IF is_operator(elem)
            THEN IF Len(stack) < 2 THEN <<"raised", stack>>
                 ELSE LET num_b == Stack_pop(stack)[1]
                          below == Stack_pop(stack)[2]
                          num_a == Stack_pop(below)[1]
                      IN eval_loop(rest, Stack_push(Stack_pop(below)[2],
                                              Operator_execute(elem[2], num_a, num_b)))
            ELSE <<"raised", stack>>

eval_rpn(output) == eval_loop(output, <<>>)

\* ------------------------------------------------- expressions and their text
\* An expression is <<"num", numeral>>, <<"fn", name, argument>> or
\* <<"op", name, left, right>>.
RECURSIVE leaves(_)
leaves(e) ==
    CASE e[1] = "num" -> 1
      [] e[1] = "fn" -> leaves(e[3])
      [] e[1] = "op" -> leaves(e[3]) + leaves(e[4])

\* The expressions with n operators and functions whose numbers are, from left to
\* right, numerals[first], numerals[first + 1], ...
RECURSIVE Exprs(_, _, _)
Exprs(n, first, numerals) ==
    IF n = 0 THEN { <<"num", numerals[first]>> }
    ELSE { <<"fn", "exp", arg>> : arg \in Exprs(n - 1, first, numerals) }
         \cup UNION { UNION { { <<"op", name, left, right>> :
                                   name \in OperatorNames,
                                   right \in Exprs(n - 1 - k, first + leaves(left), numerals) } :
                              left \in Exprs(k, first, numerals) } :
                      k \in 0..(n - 1) }

\* "15", "7", "2", "-3", "4", "10", and the same with "1.5" first.
IntNumerals == << <<49, 53>>, <<55>>, <<50>>, <<45, 51>>, <<52>>, <<49, 48>> >>
DecNumerals == << <<49, 46, 53>>, <<55>>, <<50>>, <<45, 51>>, <<52>>, <<49, 48>> >>

\* The expressions calculate_expression is given: every expression of up to MaxOps
\* operators and functions over integer numerals, and the small ones with a decimal.
Expressions ==
    UNION { Exprs(n, 1, IntNumerals) : n \in 0..MaxOps }
    \cup UNION { Exprs(n, 1, DecNumerals) : n \in 0..1 }

\* How tightly an operator binds in written arithmetic: products and quotients before
\* sums and differences.
binding(name) == IF name \in {"mul", "div"} THEN 2 ELSE 1

\* The text of an expression. "plain": lower case, parentheses only where the
\* precedence and the left-to-right rule need them ("15 sub 7 mul 2", "exp(15 add 7)");
\* "full": upper case, every operand in parentheses ("(15) SUB ((7) MUL (2))").
RECURSIVE show(_, _)
show(e, style) ==
    LET word(name) == IF style = "full" THEN upper(spell(name)) ELSE spell(name)
        operand(x, needed) ==
            IF needed \/ style = "full" THEN <<40>> \o show(x, style) \o <<41>>
            ELSE show(x, style)
    IN CASE e[1] = "num" -> e[2]
         [] e[1] = "fn" ->
              word(e[2]) \o (IF style = "full" THEN <<32, 40>> ELSE <<40>>)
                         \o show(e[3], style) \o <<41>>
         [] e[1] = "op" ->
              operand(e[3], e[3][1] = "op" /\ binding(e[3][2]) < binding(e[2]))
              \o <<32>> \o word(e[2]) \o <<32>>
              \o operand(e[4], e[4][1] = "op" /\ binding(e[4][2]) <= binding(e[2]))

\* The value of an expression: functions and operators applied to the values of their
\* operands.
RECURSIVE value_of(_)
value_of(e) ==
    CASE e[1] = "num" -> IF is_int_literal(e[2]) THEN <<"num", int(e[2])>> ELSE <<"dec", e[2]>>
      [] e[1] = "fn" -> Function_execute(e[2], value_of(e[3]))
      [] e[1] = "op" -> Operator_execute(e[2], value_of(e[3]), value_of(e[4]))

\* calculate_expression: self.parse_text(text).
ParseText ==
    /\ calc_pc = "start"
    /\ LET parsed == parse_text(expr_text)
       IN /\ input_queue' = parsed[2]
          /\ IF parsed[1] = "returned"
             THEN calc_pc' = "parsed" /\ UNCHANGED calc_outcome
             ELSE calc_pc' = "done" /\ calc_outcome' = "raised"
    /\ UNCHANGED <<notCalc, expr, expr_text, output_queue, stack_len, calc_value>>

\* calculate_expression: self.build_rpn().
BuildRpn ==
    /\ calc_pc = "parsed"
    /\ LET built == build_rpn(input_queue)
       IN /\ input_queue' = built[2]
          /\ output_queue' = built[3]
          /\ IF built[1] = "returned"
             THEN calc_pc' = "built" /\ UNCHANGED calc_outcome
             ELSE calc_pc' = "done" /\ calc_outcome' = "raised"
    /\ UNCHANGED <<notCalc, expr, expr_text, stack_len, calc_value>>

\* calculate_expression: return self.eval_rpn(). The iteration empties the output
\* queue; 'assert len(stack) == 1' raises when it fails.
EvalRpn ==
    /\ calc_pc = "built"
    /\ LET evaluated == eval_rpn(output_queue)
       IN IF evaluated[1] = "returned"
          THEN /\ stack_len' = Len(evaluated[2])
               /\ IF stack_len' = 1
                  THEN calc_value' = Some(Stack_pop(evaluated[2])[1]) /\ calc_outcome' = "returned"
                  ELSE calc_value' = None /\ calc_outcome' = "raised"
          ELSE /\ calc_outcome' = "raised"
               /\ UNCHANGED <<stack_len, calc_value>>
    /\ output_queue' = <<>>
    /\ calc_pc' = "done"
    /\ UNCHANGED <<notCalc, expr, expr_text, input_queue>>

CalcInit ==
    /\ expr \in Expressions
    /\ \E style \in {"plain", "full"} : expr_text = show(expr, style)
    /\ input_queue = <<>>
    /\ output_queue = <<>>
    /\ stack_len = 0
    /\ calc_value = None
    /\ calc_outcome = "none"
    /\ calc_pc = "start"
    /\ CryptoIdle
    /\ OthersIdle
    /\ MorseIdle
    /\ DecoderIdle
    /\ RpsIdle

CalcNext ==
    \/ ParseText
    \/ BuildRpn
    \/ EvalRpn

SpecCalc == CalcInit /\ [][CalcNext]_vars

\* ---------------------------------------------------------------- Debouncer
LOW == "LOW"
HIGH == "HIGH"

\* Longest time between two readings of the clock, and the time the polling is followed for.
MaxStep == stable_time + 1
MaxTime == 4 * MaxStep

\* deb_log with one more call, the oldest dropped once MaxLog calls are kept.
logged(call) ==
    IF Len(deb_log) < MaxLog THEN Append(deb_log, call) ELSE Append(Tail(deb_log), call)

\* Debouncer.__init__, at the first reading of the clock.
MorseInit ==
    /\ \E initial_stable_value \in {LOW, HIGH} :
          /\ deb_value = initial_stable_value
          /\ last_state = initial_stable_value
          /\ prev_reading = initial_stable_value
    /\ fall_rise_state = "UNCHANGED"
    /\ time_changed = 0
    /\ time_now = 0
    /\ deb_log = <<>>
    /\ deb_pc = "polling"
    /\ differed_at = None
    /\ CryptoIdle
    /\ OthersIdle
    /\ CalcIdle
    /\ DecoderIdle
    /\ RpsIdle

\* Debouncer.update: the fall-rise state a stable reading leaves.
stable_fall_rise(old, state) ==
    IF old = LOW /\ state = HIGH THEN "RISE"
    ELSE IF old = HIGH /\ state = LOW THEN "FALL"
    ELSE "UNCHANGED"

\* Debouncer.update taking a reading for stable as soon as stable_time has elapsed.
is_stable_early(state, now) == state = last_state /\ now - time_changed >= stable_time

\* Debouncer.update: whether the reading state, taken at now, is stable.
is_stable(state, now) == state = last_state /\ now - time_changed > stable_time

\* Debouncer.update, reading state from the pin, elapsed after the last reading of the clock.
Update(state, elapsed) ==
    /\ deb_pc = "polling"
    /\ time_now + elapsed <= MaxTime
    /\ time_now' = time_now + elapsed
    /\ IF is_stable(state, time_now')
       THEN /\ fall_rise_state' = stable_fall_rise(deb_value, state)
            /\ deb_value' = state
            /\ UNCHANGED time_changed
       ELSE IF state # last_state
       THEN /\ time_changed' = time_now'
            /\ UNCHANGED <<fall_rise_state, deb_value>>
       ELSE UNCHANGED <<fall_rise_state, deb_value, time_changed>>
    /\ last_state' = state
    /\ deb_log' = logged([op |-> "update", from |-> deb_value, to |-> deb_value'])
    /\ prev_reading' = state
    /\ differed_at' = IF state # prev_reading THEN Some(time_now') ELSE differed_at
    /\ UNCHANGED <<notMorse, deb_pc>>

\* Debouncer.fall answering for every pending change.
fall_returns_any(state) == state # "UNCHANGED"

\* What Debouncer.rise and Debouncer.fall return in fall-rise state `state`.
rise_returns(state) == state = "RISE"
fall_returns(state) == state = "FALL"

\* Debouncer.rise
Rise ==
    /\ deb_pc = "polling"
    /\ fall_rise_state' = IF rise_returns(fall_rise_state) THEN "UNCHANGED" ELSE fall_rise_state
    /\ deb_log' = logged([op |-> "rise", ret |-> rise_returns(fall_rise_state)])
    /\ UNCHANGED <<notMorse, deb_value, last_state, time_changed, time_now, deb_pc,
                   prev_reading, differed_at>>

\* Debouncer.fall
Fall ==
    /\ deb_pc = "polling"
    /\ fall_rise_state' = IF fall_returns(fall_rise_state) THEN "UNCHANGED" ELSE fall_rise_state
    /\ deb_log' = logged([op |-> "fall", ret |-> fall_returns(fall_rise_state)])
    /\ UNCHANGED <<notMorse, deb_value, last_state, time_changed, time_now, deb_pc,
                   prev_reading, differed_at>>

Poll == \E state \in {LOW, HIGH}, elapsed \in 1..MaxStep : Update(state, elapsed)

MorseNext ==
    \/ Poll
    \/ Rise
    \/ Fall

SpecMorse == MorseInit /\ [][MorseNext]_vars

\* ------------------------------------------------------------- MorseDecoder
MORSE_CODE ==
    (".-" :> "a") @@ ("-..." :> "b") @@ ("-.-." :> "c") @@ ("-.." :> "d") @@ ("." :> "e") @@
    ("..-." :> "f") @@ ("--." :> "g") @@ ("...." :> "h") @@ (".." :> "i") @@ (".---" :> "j") @@
    ("-.-" :> "k") @@ (".-.." :> "l") @@ ("--" :> "m") @@ ("-." :> "n") @@ ("---" :> "o") @@
    (".--." :> "p") @@ ("--.-" :> "q") @@ (".-." :> "r") @@ ("..." :> "s") @@ ("-" :> "t") @@
    ("..-" :> "u") @@ ("...-" :> "v") @@ (".--" :> "w") @@ ("-..-" :> "x") @@ ("-.--" :> "y") @@
    ("--.." :> "z") @@ (".----" :> "1") @@ ("..---" :> "2") @@ ("...--" :> "3") @@
    ("....-" :> "4") @@ ("....." :> "5") @@ ("-...." :> "6") @@ ("--..." :> "7") @@
    ("---.." :> "8") @@ ("----." :> "9") @@ ("-----" :> "0")

\* MorseDecoder.Signal
Signal == {"DOT", "DASH", "SHORT_PAUSE", "MEDIUM_PAUSE", "LONG_PAUSE"}

\* dict.get(key, default)
get(dict, key, default) == IF key \in DOMAIN dict THEN dict[key] ELSE default

\* The methods below take and return the decoder's texts as <<current_symbol, current_word>>;
\* handle_word_end and process_signal add the line printed (optional).

\* MorseDecoder.update_current_symbol
update_current_symbol(texts, sig) ==
    IF sig = "DOT" THEN <<texts[1] \o ".", texts[2]>>
    ELSE IF sig = "DASH" THEN <<texts[1] \o "-", texts[2]>>
    ELSE texts

\* MorseDecoder.update_current_word
update_current_word(texts, char) == <<texts[1], texts[2] \o char>>

\* MorseDecoder.handle_symbol_end keeping the symbol.
handle_symbol_end_keep(texts) == update_current_word(texts, get(MORSE_CODE, texts[1], "_"))

\* MorseDecoder.handle_symbol_end
handle_symbol_end(texts) ==
    <<"", update_current_word(texts, get(MORSE_CODE, texts[1], "_"))[2]>>

\* MorseDecoder.handle_word_end
handle_word_end(texts) ==
    LET ended == handle_symbol_end(texts)
    IN  <<ended[1], "", Some(ended[2])>>

\* MorseDecoder.process_signal
process_signal(texts, sig) ==
    IF sig \in {"DOT", "DASH"} THEN Append(update_current_symbol(texts, sig), None)
    ELSE IF sig = "MEDIUM_PAUSE" THEN Append(handle_symbol_end(texts), None)
    ELSE IF sig = "LONG_PAUSE" THEN handle_word_end(texts)
    ELSE Append(texts, None)

\* A call of process_signal(sig) on the decoder as it is.
ProcessSignal(sig) ==
    /\ dec_pc = "processing"
    /\ sig \in {"DOT", "DASH"} => Len(current_symbol) < MaxSymbolLen
    /\ sig = "MEDIUM_PAUSE" => Len(current_word) < MaxWordLen
    /\ LET done == process_signal(<<current_symbol, current_word>>, sig)
       IN  /\ current_symbol' = done[1]
           /\ current_word' = done[2]
           /\ emitted' = done[3]
    /\ signal' = sig
    /\ UNCHANGED <<notDecoder, last_rise, last_fall, dec_pc, decoderParams, pauseHistory>>

\* MorseDecoder.__init__, before the first signal.
ProcessInit ==
    /\ current_symbol = ""
    /\ current_word = ""
    /\ last_rise = 0
    /\ last_fall = 0
    /\ signal = "NONE"
    /\ emitted = None
    /\ dec_pc = "processing"
    /\ interval = 1
    /\ max_input_deviation = 0
    /\ max_pause_deviation = 0
    /\ too_long_is_dash = FALSE
    /\ released_at = None
    /\ long_pauses = 0
    /\ CryptoIdle
    /\ OthersIdle
    /\ CalcIdle
    /\ MorseIdle
    /\ RpsIdle

ProcessNext == \E sig \in Signal : ProcessSignal(sig)

SpecProcess == ProcessInit /\ [][ProcessNext]_vars

\* ------------------------------------------------------- run_decoding_loop
\* (later - earlier) // 1000000
elapsed_ms(later, earlier) == (later - earlier) \div TicksPerMs

\* MorseDecoder.value_in_interval
value_in_interval(value, max_deviation, interval_multiplier) ==
    LET span == interval * interval_multiplier
    IN  (span - max_deviation) <= value /\ value <= (span + max_deviation)

\* MorseDecoder.input_in_interval, MorseDecoder.pause_in_interval
input_in_interval(value, interval_multiplier) ==
    value_in_interval(value, max_input_deviation, interval_multiplier)
pause_in_interval(value, interval_multiplier) ==
    value_in_interval(value, max_pause_deviation, interval_multiplier)

\* read_one_signal asking for more than seven intervals.
long_pause_late(ms) == ms > interval * 7

\* read_one_signal: whether a pause of ms milliseconds is a long pause.
long_pause(ms) == ms >= interval * 7

\* MorseDecoder.read_one_signal at clock now, the debouncer's fall-rise state being pending:
\* the signal returned ("NONE" for None) and what the call leaves in the fall-rise state,
\* __last_rise and __last_fall.
read_one_signal(pending, now) ==
    IF rise_returns(pending)
    THEN [signal |-> IF pause_in_interval(elapsed_ms(now, last_fall), 3)
                     THEN "MEDIUM_PAUSE" ELSE "NONE",
          pending |-> "UNCHANGED", last_rise |-> now, last_fall |-> last_fall]
    ELSE IF fall_returns(pending)
    THEN [signal |-> IF input_in_interval(elapsed_ms(now, last_rise), 1) THEN "DOT"
                     ELSE IF input_in_interval(elapsed_ms(now, last_rise), 3) THEN "DASH"
                     ELSE IF too_long_is_dash /\ elapsed_ms(now, last_rise) > (interval * 3)
                     THEN "DASH"
                     ELSE "NONE",
          pending |-> "UNCHANGED", last_rise |-> last_rise, last_fall |-> now]
    ELSE IF last_fall > last_rise
    THEN IF long_pause(elapsed_ms(now, last_fall))
         THEN [signal |-> "LONG_PAUSE", pending |-> pending, last_rise |-> 0, last_fall |-> 0]
         ELSE [signal |-> "NONE", pending |-> pending,
               last_rise |-> last_rise, last_fall |-> last_fall]
    ELSE [signal |-> "NONE", pending |-> pending,
          last_rise |-> last_rise, last_fall |-> last_fall]

\* One pass of the loop of run_decoding_loop: debouncer.update() reads state from the pin,
\* elapsed ticks after the last reading of the clock, read_one_signal reads the clock delay
\* ticks later, and process_signal gets the signal unless it is None.  deb_log, which keeps
\* the calls made on a Debouncer directly, stays empty.
LoopPass(state, elapsed, delay) ==
    LET stable == is_stable(state, time_now + elapsed)
        pending == IF stable THEN stable_fall_rise(deb_value, state) ELSE fall_rise_state
        read == read_one_signal(pending, time_now + elapsed + delay)
        done == IF read.signal # "NONE"
                THEN process_signal(<<current_symbol, current_word>>, read.signal)
                ELSE <<current_symbol, current_word, None>>
    IN  /\ dec_pc = "looping"
        /\ time_now + elapsed + delay <= LoopTime
        /\ Len(done[1]) <= MaxSymbolLen
        /\ Len(done[2]) <= MaxWordLen
        /\ time_now' = time_now + elapsed + delay
        /\ deb_value' = IF stable THEN state ELSE deb_value
        /\ time_changed' = IF ~stable /\ state # last_state
                           THEN time_now + elapsed ELSE time_changed
        /\ last_state' = state
        /\ fall_rise_state' = read.pending
        /\ last_rise' = read.last_rise
        /\ last_fall' = read.last_fall
        /\ signal' = read.signal
        /\ current_symbol' = done[1]
        /\ current_word' = done[2]
        /\ emitted' = done[3]
        /\ prev_reading' = state
        /\ differed_at' = IF state # prev_reading THEN Some(time_now + elapsed)
                          ELSE differed_at
        /\ released_at' = IF deb_value = HIGH /\ deb_value' = LOW THEN Some(time_now')
                          ELSE released_at
        /\ long_pauses' = IF deb_value = HIGH /\ deb_value' = LOW THEN 0
                          ELSE IF read.signal = "LONG_PAUSE" THEN long_pauses + 1
                          ELSE long_pauses
        /\ UNCHANGED <<cryptoVars, hackVars, inverseVars, sampleVars, containerVars, calcVars,
                       rpsVars, deb_log, deb_pc, dec_pc, decoderParams>>

\* The intervals and the deviations, in ms, a MorseDecoder is constructed with.
Intervals == {1}
Deviations == {0, 1}

\* MorseDecoder.__init__ with its Debouncer, at the first reading of the clock.
LoopInit ==
    /\ interval \in Intervals
    /\ max_input_deviation \in Deviations
    /\ max_pause_deviation \in Deviations
    /\ too_long_is_dash \in BOOLEAN
    /\ current_symbol = ""
    /\ current_word = ""
    /\ last_rise = 0
    /\ last_fall = 0
    /\ signal = "NONE"
    /\ emitted = None
    /\ dec_pc = "looping"
    /\ released_at = None
    /\ long_pauses = 0
    /\ \E initial_stable_value \in {LOW, HIGH} :
          /\ deb_value = initial_stable_value
          /\ last_state = initial_stable_value
          /\ prev_reading = initial_stable_value
    /\ fall_rise_state = "UNCHANGED"
    /\ time_changed = 0
    /\ time_now = 0
    /\ differed_at = None
    /\ deb_log = <<>>
    /\ deb_pc = "idle"
    /\ CryptoIdle
    /\ OthersIdle
    /\ CalcIdle
    /\ RpsIdle

LoopNext ==
    \E state \in {LOW, HIGH}, elapsed \in 1..MaxStep, delay \in 0..1 :
        LoopPass(state, elapsed, delay)

SpecLoop == LoopInit /\ [][LoopNext]_vars

\* ---------------------------------------------------- Rock Paper Scissors
Actions == {ROCK, SCISSOR, PAPER}

\* Action.random: what Action(random.randint(0, 2)) can be.
Action_random == {a \in Actions : 0 <= a /\ a <= 2}

\* Action.beaten_by
beaten_by(a) == (a - 1) % 3

\* Action.__gt__ the wrong way round.
Action_gt_reversed(a, other) == (other + 1) % 3 = a

\* Action.__eq__, Action.__gt__
Action_eq(a, other) == a = other
Action_gt(a, other) == (a + 1) % 3 = other

\* A dict is the sequence of its <<key, count>> items in insertion order.
has_key(counts, key) == \E i \in 1..Len(counts) : counts[i][1] = key

\* MostCommmon.increase_count, Historian.increase_count
increase_count(counts, key) ==
    IF has_key(counts, key)
    THEN [i \in 1..Len(counts) |->
             IF counts[i][1] = key THEN <<key, counts[i][2] + 1>> ELSE counts[i]]
    ELSE Append(counts, <<key, 1>>)

\* max(counts, key=lambda k: counts[k], default=None): the first key with the highest count.
max_count(counts) ==
    IF counts = <<>> THEN None
    ELSE LET i == CHOOSE i \in 1..Len(counts) :
                      /\ \A j \in 1..Len(counts) : counts[j][2] <= counts[i][2]
                      /\ \A j \in 1..(i - 1) : counts[j][2] < counts[i][2]
         IN  Some(counts[i][1])

\* Random(), Sequential(), MostCommmon(), Historian(remember)
new_player(kind, remember) ==
    [kind |-> kind, index |-> 0, remember |-> IF kind = "Historian" THEN remember + 1 ELSE 0,
     their_last_actions |-> <<>>, asked |-> 0, told |-> <<>>]

\* MostCommmon.most_common_action
MostCommmon_most_common_action(mc) == max_count(mc)

\* Historian.most_common_action
Historian_most_common_action(player, hc) ==
    IF Len(player.their_last_actions) # player.remember THEN None
    ELSE LET filter_condition == Tail(player.their_last_actions)
             starts(c) == SubSeq(c[1], 1, Len(c[1]) - 1) = filter_condition
             sequence == max_count(SelectSeq(hc, starts))
         IN  IF sequence = None THEN None
             ELSE Some(sequence[1][Len(sequence[1])])

\* Player.select_action for each kind of player, random being what Action.random() returns
\* if it is called: <<the action, the player afterwards>>.
select_action(player, mc, hc, random) ==
    LET asked == [player EXCEPT !.asked = @ + 1]
        action == IF player.kind = "MostCommmon" THEN MostCommmon_most_common_action(mc)
                  ELSE Historian_most_common_action(player, hc)
    IN  IF player.kind = "Random" THEN <<random, asked>>
        ELSE IF player.kind = "Sequential"
        THEN <<player.index, [asked EXCEPT !.index = (@ + 1) % 3]>>
        ELSE IF action # None THEN <<beaten_by(action[1]), asked>>
        ELSE <<random, asked>>

\* collections.deque(maxlen=...).append
deque_append(deque, maxlen, item) ==
    IF Len(deque) = maxlen THEN Append(Tail(deque), item) ELSE Append(deque, item)

\* Player.receive_result for each kind of player:
\* <<the player afterwards, MostCommmon.counts, Historian.counts>>.
receive_result(player, their_action, mc, hc) ==
    LET told == [player EXCEPT !.told = Append(@, their_action)]
        last == deque_append(player.their_last_actions, player.remember, their_action)
    IN  IF player.kind = "MostCommmon" THEN <<told, increase_count(mc, their_action), hc>>
        ELSE IF player.kind = "Historian"
        THEN <<[told EXCEPT !.their_last_actions = last],
               mc,
               IF Len(last) = player.remember THEN increase_count(hc, last) ELSE hc>>
        ELSE <<told, mc, hc>>

\* SingleGame.perform_game on a game that has no winner yet: the two actions, the winner,
\* the players and the two counts afterwards.
perform_game(random1, random2) ==
    LET selected1 == select_action(players[1], MostCommmon_counts, Historian_counts, random1)
        selected2 == select_action(players[2], MostCommmon_counts, Historian_counts, random2)
        received1 == receive_result(selected1[2], selected2[1],
                                    MostCommmon_counts, Historian_counts)
        received2 == receive_result(selected2[2], selected1[1], received1[2], received1[3])
    IN  [player1_action |-> selected1[1],
         player2_action |-> selected2[1],
         winner |-> IF Action_gt(selected1[1], selected2[1]) THEN "P1"
                    ELSE IF Action_gt(selected2[1], selected1[1]) THEN "P2"
                    ELSE "NEITHER",
         players |-> <<received1[1], received2[1]>>,
         mc |-> received2[2],
         hc |-> received2[3]]

\* The players a game is arranged between.
Players ==
    {new_player("Random", 0), new_player("Sequential", 0), new_player("MostCommmon", 0),
     new_player("Historian", 1)}

\* SingleGame(player1, player2) between two new players.
GameInit ==
    /\ players \in Players \X Players
    /\ MostCommmon_counts = <<>>
    /\ Historian_counts = <<>>
    /\ player1_action = None
    /\ player2_action = None
    /\ winner = "None"
    /\ perform_calls = 0
    /\ player1_scores = <<>>
    /\ player2_scores = <<>>
    /\ number_of_games = 0
    /\ games_played = 0
    /\ rps_pc = "game"
    /\ CryptoIdle
    /\ OthersIdle
    /\ CalcIdle
    /\ MorseIdle
    /\ DecoderIdle

\* SingleGame.perform_game
PerformGame ==
    /\ rps_pc = "game"
    /\ perform_calls < MaxPerform
    /\ perform_calls' = perform_calls + 1
    /\ IF winner # "None"
       THEN UNCHANGED <<playerVars, player1_action, player2_action, winner>>
       ELSE \E random1 \in Action_random, random2 \in Action_random :
               LET game == perform_game(random1, random2)
               IN  /\ player1_action' = Some(game.player1_action)
                   /\ player2_action' = Some(game.player2_action)
                   /\ winner' = game.winner
                   /\ players' = game.players
                   /\ MostCommmon_counts' = game.mc
                   /\ Historian_counts' = game.hc
    /\ UNCHANGED <<notRps, tournamentVars, rps_pc>>

\* SingleGame(player1, player2) once more, between the same two players.
NewGame ==
    /\ rps_pc = "game"
    /\ winner # "None"
    /\ players[1].asked < MaxGames
    /\ player1_action' = None
    /\ player2_action' = None
    /\ winner' = "None"
    /\ perform_calls' = 0
    /\ UNCHANGED <<notRps, playerVars, tournamentVars, rps_pc>>

GameNext ==
    \/ PerformGame
    \/ NewGame

SpecGame == GameInit /\ [][GameNext]_vars

\* --------------------------------------------------------------- Tournament
\* A score is the fraction <<numerator, denominator>>: 1, 0 and 0.5.
one == <<1, 1>>
zero == <<0, 1>>
half == <<1, 2>>

\* arrange_singlegame giving nothing for a game nobody has won.
scores_nothing_for_draw(won) ==
    IF won = "P1" THEN <<one, zero>> ELSE IF won = "P2" THEN <<zero, one>> ELSE <<zero, zero>>

\* Tournament.arrange_singlegame: what is appended to player1_scores and player2_scores.
scores(won) ==
    IF won = "P1" THEN <<one, zero>> ELSE IF won = "P2" THEN <<zero, one>> ELSE <<half, half>>

\* Tournament(player1, player2, number_of_games) between two new players.
TournamentInit ==
    /\ players \in Players \X Players
    /\ MostCommmon_counts = <<>>
    /\ Historian_counts = <<>>
    /\ player1_action = None
    /\ player2_action = None
    /\ winner = "None"
    /\ perform_calls = 0
    /\ player1_scores = <<>>
    /\ player2_scores = <<>>
    /\ number_of_games \in 0..MaxGames
    /\ games_played = 0
    /\ rps_pc = "constructed"
    /\ CryptoIdle
    /\ OthersIdle
    /\ CalcIdle
    /\ MorseIdle
    /\ DecoderIdle

\* Tournament.arrange_tournament is called.
ArrangeTournament ==
    /\ rps_pc = "constructed"
    /\ rps_pc' = "tournament"
    /\ UNCHANGED <<notRps, playerVars, gameVars, tournamentVars>>

\* Tournament.arrange_singlegame, called by the loop of arrange_tournament: a new SingleGame
\* is performed and scored.
ArrangeSinglegame ==
    /\ rps_pc = "tournament"
    /\ games_played < number_of_games
    /\ \E random1 \in Action_random, random2 \in Action_random :
          LET singlegame == perform_game(random1, random2)
          IN  /\ player1_action' = Some(singlegame.player1_action)
              /\ player2_action' = Some(singlegame.player2_action)
              /\ winner' = singlegame.winner
              /\ players' = singlegame.players
              /\ MostCommmon_counts' = singlegame.mc
              /\ Historian_counts' = singlegame.hc
              /\ player1_scores' = Append(player1_scores, scores(singlegame.winner)[1])
              /\ player2_scores' = Append(player2_scores, scores(singlegame.winner)[2])
    /\ perform_calls' = 1
    /\ games_played' = games_played + 1
    /\ UNCHANGED <<notRps, number_of_games, rps_pc>>

\* The loop of arrange_tournament ends; average_of_previous reads nums[0] of the scores.
TournamentReturn ==
    /\ rps_pc = "tournament"
    /\ ~(games_played < number_of_games)
    /\ rps_pc' = IF player1_scores = <<>> THEN "raised" ELSE "returned"
    /\ UNCHANGED <<notRps, playerVars, gameVars, tournamentVars>>

TournamentNext ==
    \/ ArrangeTournament
    \/ ArrangeSinglegame
    \/ TournamentReturn

SpecTournament == TournamentInit /\ [][TournamentNext]_vars

\* ================================================================== claims
\* Coprimality by common divisors, independent of extended_gcd.
Coprime(a, m) == a >= 1 /\ \A d \in 2..a : ~(a % d = 0 /\ m % d = 0)

\* C6: strict_modular_inverse(a, 95) for a in [1,94] returns an x in [0,95) with
\* (a * x) mod 95 = 1 when gcd(a, 95) = 1, and None when gcd(a, 95) # 1.
C6_InverseCorrect ==
    inverse_done =>
        /\ int_a \in 1..94 /\ int_m = 95
        /\ IF Coprime(int_a, 95)
           THEN /\ inverse # None
                /\ inverse[1] \in 0..94
                /\ (int_a * inverse[1]) % 95 = 1
           ELSE inverse = None

C6_Witness ==
    /\ inverse_done /\ int_a = 94 /\ inverse = Some(94)

\* C1: for Caesar, Multiplicative, Affine and Unbreakable, with any pair gen_key_pair
\* returns, decoding with the decoding key what was encoded with the encoding key
\* gives the clear text back, the empty text included.
CharCiphers == {"Caesar", "Multiplicative", "Affine", "Unbreakable"}

C1_RoundTrip ==
    (pc = "received" /\ cipher \in CharCiphers) => received = clear_text

\* An Unbreakable round trip in which the key ("ab\n") is shorter than the text.
C1_Witness ==
    /\ pc = "received" /\ cipher = "Unbreakable"
    /\ Len(keys[1]) = 3 /\ Len(clear_text) = 5
    /\ sent # clear_text
    /\ received = clear_text

\* C8 (as claimed): encode and decode of Caesar, Multiplicative and Affine fail when the
\* key is a scalar outside [0,94] or a multiplicative key not coprime with 95.
InvalidScalar(k) == k \notin 0..94
InvalidKey(cls, k) ==
    CASE cls = "Caesar" -> InvalidScalar(k)
      [] cls = "Multiplicative" -> InvalidScalar(k) \/ ~Coprime(k, 95)
      [] cls = "Affine" -> InvalidScalar(k[1]) \/ ~Coprime(k[1], 95) \/ InvalidScalar(k[2])

C8_InvalidKeyFails ==
    (/\ pc \in {"encode_called", "decode_called"}
     /\ arg_key # None
     /\ InvalidKey(cipher, arg_key[1]))
    => outcome = "raised"

\* C9: for every pair ((n,e),(n,d)) RSA.gen_key_pair returns and every block m in
\* [0,n), (m^e mod n)^d mod n = m; and the Receiver restores every text whose blocks
\* are all below n.
C9_RSARoundTrip ==
    cipher = "RSA" =>
        /\ pc = "have_keys" =>
              \A m \in 0..(keys[1][1] - 1) :
                  pow(pow(m, keys[1][2], keys[1][1]), keys[2][2], keys[2][1]) = m
        /\ (pc = "received" /\ \A i \in 1..Len(clear_text) : clear_text[i] < keys[1][1])
              => received = clear_text

C9_Witness ==
    /\ cipher = "RSA" /\ pc = "received"
    /\ keys[1][2] # keys[2][2]
    /\ Len(clear_text) = 2
    /\ \A i \in 1..Len(clear_text) : sent[i] # clear_text[i]
    /\ received = clear_text

\* C10: Multiplicative.gen_key_pair and RSA.gen_key_pair return only once the sampled
\* candidate has an inverse: the Multiplicative pair (k, inv) has k in [2,94] and
\* (k * inv) mod 95 = 1; the RSA pair ((n,e),(n,d)) has n = p*q for distinct primes
\* p, q, 3 <= e <= phi-1 and (e * d) mod phi = 1 with phi = (p-1)*(q-1).
C10_KeyGenRetries ==
    /\ (cipher = "Multiplicative" /\ keys # None) =>
          /\ decoding_key # None
          /\ keys = <<encoding_key, decoding_key[1]>>
          /\ keys[1] \in 2..94
          /\ (keys[1] * keys[2]) % 95 = 1
    /\ (cipher = "RSA" /\ keys # None) =>
          LET phi == (prime_p - 1) * (prime_q - 1)
          IN /\ inverse_d # None
             /\ IsPrime(prime_p) /\ IsPrime(prime_q) /\ prime_p # prime_q
             /\ keys = << <<prime_p * prime_q, rand_e>>, <<prime_p * prime_q, inverse_d[1]>> >>
             /\ rand_e \in 3..(phi - 1)
             /\ (rand_e * inverse_d[1]) % phi = 1

\* A Multiplicative pair returned with the sampled key 2 and its inverse 48.
C10_Witness ==
    /\ cipher = "Multiplicative" /\ pc = "have_keys" /\ keys = <<2, 48>>

\* Whether a text is lexicon words separated by single spaces.
IsWordMessage(text) ==
    \A i \in 1..Len(split(text)) : split(text)[i] \in lexicon_words(english_words)

\* The Caesar decoding keys whose decode of the ciphertext the oracle accepts.
CaesarAccepted == {d \in 0..94 : check_correctness(Caesar_decode(d, sent))}

C3_NotFound ==
    (cipher = "Caesar" /\ pc = "hack_done")
    => /\ result = None <=> CaesarAccepted = {}
       /\ result = None => tried = [i \in 1..95 |-> i - 1]

C3_Witness ==
    /\ cipher = "Caesar" /\ pc = "hack_done"
    /\ result = None
    /\ Len(tried) = 95
    /\ clear_text # <<>>

\* The candidate encoding keys of the Hacker's dictionary attack.
DictionaryKeys ==
    {drop_last(file_lines(english_words)[i]) : i \in 1..Len(file_lines(english_words))}

\* C4 (as claimed): every encoding key Unbreakable.gen_key_pair returns is one of the
\* Hacker's candidate keys, so that for a message of lexicon words one of the
\* candidates decodes the ciphertext to the message.
C4_KeyIsCandidate ==
    (cipher = "Unbreakable" /\ arg_key = None /\ pc \in {"hacking", "hack_done"})
    => /\ keys[1] \in DictionaryKeys
       /\ IsWordMessage(clear_text) =>
             \E key \in DictionaryKeys :
                 Unbreakable_decode(Unbreakable_gen_decoding_key(key), sent) = clear_text

\* The whitespace-delimited tokens of a text over the alphabet.
Tokens(text) == {split(text)[i] : i \in 1..Len(split(text))} \ {<<>>}

\* C5 (as claimed): check_correctness(text) is True iff every whitespace-delimited
\* token of text equals a whole word (one full line) of the word list.
C5_OracleExact ==
    (pc \in {"hacking", "hack_done"} /\ tried # <<>>)
    => (accepted <=> \A token \in Tokens(decoded_text) :
                        token \in lexicon_words(english_words))

\* C7 (as claimed): operate_chipher with RSA ends in an 'unsupported cipher'
\* condition, not in the return of None that means 'not found'.
C7_RSAUnsupported ==
    (cipher = "RSA" /\ pc = "hack_done")
    => ~(outcome = "returned" /\ result = None)

\* C11: Caesar.gen_key_pair always returns a pair (enc, dec) with enc in [1,94] and
\* dec = (95 - enc) mod 95, so that dec is in [1,94] too and (enc + dec) mod 95 = 0.
C11_CaesarKeySymmetry ==
    (cipher = "Caesar" /\ pc = "have_keys") =>
        /\ keys[1] \in 1..94
        /\ keys[2] = (95 - keys[1]) % 95
        /\ keys[2] \in 1..94
        /\ (keys[1] + keys[2]) % 95 = 0

\* gen_key_pair has returned the pair of the largest encoding key, (94, 1).
C11_Witness ==
    /\ cipher = "Caesar" /\ pc = "have_keys"
    /\ keys = <<94, 1>>

\* Whether every character of a text is one of the 95 alphabet characters.
InAlphabet(text) == \A i \in 1..Len(text) : text[i] \in 32..126

\* C12: for every Unbreakable encoding key k over the alphabet, gen_decoding_key(k) is a
\* string d over the alphabet, as long as k, with (v(k[i]) + v(d[i])) mod 95 = 0 at every
\* position i; and gen_decoding_key(gen_decoding_key(k)) = k.
C12_UnbreakableKeyInverse ==
    (/\ cipher = "Unbreakable"
     /\ pc \in {"own_keys", "own_keys_back"}
     /\ InAlphabet(arg_key[1]))
    => /\ Len(keys[2]) = Len(keys[1])
       /\ InAlphabet(keys[2])
       /\ \A i \in 1..Len(keys[1]) : ((keys[1][i] - 32) + (keys[2][i] - 32)) % 95 = 0
       /\ pc = "own_keys_back" => keys[2] = arg_key[1]

\* The key "a~" went to ">!" and came back.
C12_Witness ==
    /\ cipher = "Unbreakable" /\ pc = "own_keys_back"
    /\ arg_key = Some(<<97, 126>>)
    /\ keys = << <<62, 33>>, <<97, 126>> >>

RECURSIVE Factorial(_)
Factorial(n) == IF n <= 1 THEN 1 ELSE n * Factorial(n - 1)

\* The number of draw sequences so far that keep line j of the lexicon.
Selecting(j) ==
    Cardinality({o \in outcomes : o[2] = file_lines(english_words)[j]})

\* C13: the line sampling of Unbreakable.gen_key_pair selects every line of a lexicon of
\* N >= 1 lines with equal probability: of the equally likely outcomes of the draws
\* randrange(2), ..., randrange(N), as many end with line j selected for every j in 1..N
\* (and so it is after every pass of the loop, over the lines read so far).
C13_EveryLineEquallyLikely ==
    pc \in {"sample_scan", "sample_done"} =>
        /\ \A o \in outcomes : Len(o[1]) = num - 2 /\ \A k \in 1..(num - 2) : o[1][k] \in 0..k
        /\ Cardinality(outcomes) = Factorial(num - 1)
        /\ \A j \in 1..(num - 1) : Selecting(j) * (num - 1) = Cardinality(outcomes)

\* A lexicon of three lines is read to its end: six outcomes, two for each line.
C13_Witness ==
    /\ pc = "sample_done"
    /\ Len(file_lines(english_words)) = 3
    /\ Cardinality(outcomes) = 6
    /\ \A j \in 1..3 : Selecting(j) = 2

\* C14: Affine.encode((km,kc), t) is Caesar.encode(kc, Multiplicative.encode(km, t)),
\* character by character (v * km + kc) mod 95; and for every km in [1,94] coprime with
\* 95, every kc in [0,94] and every alphabet text t, the empty one included,
\* Affine.decode(Affine.gen_decoding_key((km,kc)), Affine.encode((km,kc), t)) = t.
C14_AffineComposition ==
    (cipher = "Affine" /\ pc \in {"own_sent", "own_received"}) =>
        /\ Len(sent) = Len(clear_text)
        /\ \A i \in 1..Len(sent) :
              sent[i] - 32 = ((clear_text[i] - 32) * arg_key[1][1] + arg_key[1][2]) % 95
        /\ (pc = "own_received" /\ Coprime(arg_key[1][1], 95)) =>
              (outcome = "returned" /\ received = clear_text)

\* "~~a a" went through the keys (3, 2) and their decoding pair (32, 93).
C14_Witness ==
    /\ cipher = "Affine" /\ pc = "own_received"
    /\ arg_key = Some(<<3, 2>>)
    /\ keys[2] = <<Some(32), 93>>
    /\ clear_text = <<126, 126, 97, 32, 97>>
    /\ sent # clear_text
    /\ received = clear_text

\* The items the loop has yielded so far, in the order it yielded them.
Yielded == [k \in 1..Len(printed) |-> printed[k][1]]

Reversed(list) == [k \in 1..Len(list) |-> list[Len(list) + 1 - k]]

\* C15: iterating a container consumes it in order: a Queue yields its items in insertion
\* order, a Stack in reverse insertion order; each yielded item reduces len by exactly one,
\* and when the iteration stops the container is empty.
C15_IterationConsumesInOrder ==
    /\ container = "Queue" => Yielded \o items = inserted
    /\ container = "Stack" => items \o Reversed(Yielded) = inserted
    /\ \A k \in 1..Len(printed) : printed[k][2] = Len(inserted) - k
    /\ cont_pc = "stopped" => (items = <<>> /\ Len(printed) = Len(inserted))

\* test_stack: 1, 3, 5, 7 pushed, then 7, 5, 3, 1 printed with len 3, 2, 1, 0.
C15_Witness ==
    /\ container = "Stack" /\ cont_pc = "stopped"
    /\ inserted = <<1, 3, 5, 7>>
    /\ printed = << <<7, 3>>, <<5, 2>>, <<3, 1>>, <<1, 0>> >>

\* Whether every number of an expression is written as an integer numeral.
RECURSIVE IntegersOnly(_)
IntegersOnly(e) ==
    CASE e[1] = "num" -> is_int_literal(e[2])
      [] e[1] = "fn" -> IntegersOnly(e[3])
      [] e[1] = "op" -> IntegersOnly(e[3]) /\ IntegersOnly(e[4])

\* C16 (as claimed): for every well-formed infix expression over numbers, add/sub/mul/div,
\* unary functions and parentheses, calculate_expression (build_rpn followed by eval_rpn)
\* returns the value of the expression, mul/div binding tighter than add/sub, equal strength
\* from left to right, parentheses overriding, a function applied to its whole parenthesised
\* argument; and len(stack) = 1 holds at the end of eval_rpn.
C16_ReturnsValue ==
    calc_pc = "done" =>
        /\ calc_outcome = "returned"
        /\ stack_len = 1
        /\ calc_value = Some(value_of(expr))

\* C16, the part that holds: the same for the expressions whose numbers are all written
\* as integer numerals; both queues are empty afterwards.
C16_ReturnsValueOfIntegers ==
    (calc_pc = "done" /\ IntegersOnly(expr)) =>
        /\ calc_outcome = "returned"
        /\ stack_len = 1
        /\ calc_value = Some(value_of(expr))
        /\ input_queue = <<>> /\ output_queue = <<>>

\* "15 sub 7 mul 2" is 1, and "(15 sub 7) mul 2" is 16.
C16_Precedence ==
    /\ calc_pc = "done" /\ calc_outcome = "returned"
    /\ \/ expr_text = <<49, 53, 32, 115, 117, 98, 32, 55, 32, 109, 117, 108, 32, 50>>
          /\ calc_value = Some(<<"num", 1>>)
       \/ expr_text = <<40, 49, 53, 32, 115, 117, 98, 32, 55, 41, 32, 109, 117, 108, 32, 50>>
          /\ calc_value = Some(<<"num", 16>>)

\* The integers of 1..94 from n on that have an inverse mod 95, in increasing order.
RECURSIVE UnitsFrom(_)
UnitsFrom(n) ==
    IF n > 94 THEN <<>>
    ELSE (IF Coprime(n, 95) THEN <<n>> ELSE <<>>) \o UnitsFrom(n + 1)

\* The invertible integers of 1..94 in increasing order, and the inverse of each: the x
\* of 1..94 with (n * x) mod 95 = 1.
Units == UnitsFrom(1)

UnitInverses == [k \in 1..Len(Units) |-> CHOOSE x \in 1..94 : (Units[k] * x) % 95 = 1]

\* The i-th candidate decoding key in the enumeration order of the search for cls:
\* Caesar 0, 1, ..., 94; Multiplicative the inverses of the invertible 1, 2, 3, ...;
\* Affine for each such inverse in turn the pairs (inverse, 0), ..., (inverse, 94);
\* Unbreakable the decoding keys of the lexicon's lines, from the first line on.
Candidate(cls, i) ==
    CASE cls = "Caesar" -> i - 1
      [] cls = "Multiplicative" -> UnitInverses[i]
      [] cls = "Affine" -> <<UnitInverses[((i - 1) \div 95) + 1], (i - 1) % 95>>
      [] cls = "Unbreakable" ->
            LET a_line == file_lines(english_words)[i]
                word == SubSeq(a_line, 1, Len(a_line) - 1)
            IN [k \in 1..Len(word) |-> ((95 - (word[k] - 32)) % 95) + 32]

\* C17: for Caesar, Multiplicative, Affine and Unbreakable the Hacker tries the candidates
\* one after the other in a fixed enumeration order (Caesar: the decoding keys 0, 1, ...,
\* 94) and returns the decode of the first candidate the oracle accepts; no decode and no
\* oracle call follows the first acceptance.
C17_FirstAcceptedInOrder ==
    (pc = "hack_done" /\ cipher \in CharCiphers) =>
        /\ \A i \in 1..Len(tried) : tried[i] = Candidate(cipher, i)
        /\ \A i \in 1..(Len(tried) - 1) : ~check_correctness(decode(cipher, tried[i], sent))
        /\ IF result # None
           THEN /\ Len(tried) >= 1
                /\ result = Some(decode(cipher, tried[Len(tried)], sent))
                /\ check_correctness(result[1])
           ELSE \A i \in 1..Len(tried) : ~check_correctness(decode(cipher, tried[i], sent))

\* An Affine search that returned "ab" at its 481st candidate, (68, 5): the sixth
\* inverse with the sixth Caesar key.
C17_Witness ==
    /\ pc = "hack_done" /\ cipher = "Affine"
    /\ result = Some(<<97, 98>>)
    /\ Len(tried) = 481
    /\ tried[481] = <<68, 5>>

\* The integers of [1,94] invertible mod 95.
InvertibleKeys == {n \in 1..94 : Coprime(n, 95)}

\* The decoding keys of the pairs Multiplicative.gen_key_pair and Affine.gen_key_pair
\* can return.
GeneratedDecodingKeys(cls) ==
    LET mult == {Multiplicative_gen_decoding_key(k)[1] :
                    k \in {n \in 2..94 : Multiplicative_gen_decoding_key(n) # None}}
    IN IF cls = "Multiplicative" THEN mult
       ELSE mult \X {pair[2] : pair \in Caesar_gen_key_pair}

\* C18: the Hacker's key enumeration is complete for Multiplicative and Affine: a search
\* that finds nothing has tried, for Multiplicative, every integer of [1,94] invertible
\* mod 95 as decoding key, each exactly once, and nothing else; for Affine every pair
\* (m, j) with m invertible mod 95 and j in 0..94, in at most 9025 trials; so the
\* decoding key of every pair gen_key_pair can produce is among the trials.
C18_EnumerationComplete ==
    (pc = "hack_done" /\ result = None /\ cipher \in {"Multiplicative", "Affine"}) =>
        LET trials == {tried[i] : i \in 1..Len(tried)}
        IN /\ Cardinality(trials) = Len(tried)
           /\ cipher = "Multiplicative" => trials = InvertibleKeys
           /\ cipher = "Affine" => (trials = InvertibleKeys \X (0..94) /\ Len(tried) <= 9025)
           /\ GeneratedDecodingKeys(cipher) \subseteq trials

\* A Multiplicative search over a pair of gen_key_pair that found nothing, after its 72
\* trials, the last with the key 94.
C18_Witness ==
    /\ pc = "hack_done" /\ result = None
    /\ cipher = "Multiplicative"
    /\ keys[1] \in 2..94
    /\ Len(tried) = 72
    /\ tried[72] = 94

\* C19: for Caesar, Multiplicative, Affine, and Unbreakable with a non-empty key, encode
\* and decode return a text exactly as long as their input whose every character is one
\* of the 95 alphabet characters (codes 32..126).
C19_TextsStayInAlphabet ==
    (/\ pc \in {"own_sent", "own_received"}
     /\ cipher = "Unbreakable" => keys[1] # <<>>)
    => /\ Len(sent) = Len(clear_text)
       /\ InAlphabet(sent)
       /\ (pc = "own_received" /\ outcome = "returned") =>
             (Len(received) = Len(sent) /\ InAlphabet(received))

\* "~~a a" under the Unbreakable key "a\n", a lexicon line with its newline: five
\* alphabet characters out of encode, and five out of decode.
C19_Witness ==
    /\ cipher = "Unbreakable" /\ pc = "own_received"
    /\ keys[1] = <<97, 10>>
    /\ clear_text = <<126, 126, 97, 32, 97>>
    /\ Len(sent) = 5 /\ sent # clear_text
    /\ Len(received) = 5


\* C20: rise() returns True once per debounced LOW-to-HIGH change: the rise() that directly
\* follows the update() that detected the change returns True, also when fall() calls come
\* in between, and after a rise() that returned True no rise() returns True before update()
\* detects another LOW-to-HIGH change; the same for fall() and HIGH-to-LOW changes.
Detected(call, from, to) == call.op = "update" /\ call.from = from /\ call.to = to
Returned(call, op) == call.op = op /\ call.ret
OncePerChange(op, other, from, to) ==
    \A k \in 1..Len(deb_log) :
        deb_log[k].op = op =>
            /\ (\E j \in 1..(k - 1) :
                    /\ Detected(deb_log[j], from, to)
                    /\ \A i \in (j + 1)..(k - 1) : deb_log[i].op = other)
               => deb_log[k].ret
            /\ deb_log[k].ret =>
                  /\ \A i \in 1..(k - 1) :
                        Returned(deb_log[i], op) =>
                            \E j \in (i + 1)..(k - 1) : Detected(deb_log[j], from, to)
                  /\ Len(deb_log) < MaxLog =>
                        \E j \in 1..(k - 1) : Detected(deb_log[j], from, to)
C20_OncePerChange ==
    /\ OncePerChange("rise", "fall", LOW, HIGH)
    /\ OncePerChange("fall", "rise", HIGH, LOW)
C20_Witness ==
    /\ Len(deb_log) = MaxLog
    /\ Detected(deb_log[1], LOW, HIGH)
    /\ deb_log[2].op = "fall" /\ ~deb_log[2].ret
    /\ Returned(deb_log[3], "rise")
    /\ deb_log[4].op = "rise" /\ ~deb_log[4].ret
    /\ fall_rise_state = "UNCHANGED"

\* C21: Debouncer.value changes only at an update() whose reading equals the reading of the
\* previous update() and at which more than stable_time has elapsed since the last update()
\* whose reading differed from its predecessor; value then becomes that reading, so a reading
\* that has lasted stable_time or less never changes value.
ValueChanges == deb_value' # deb_value
C21_ChangesOnlyWhenStable ==
    [][ValueChanges =>
           /\ deb_log'[Len(deb_log')].op = "update"
           /\ prev_reading' = prev_reading
           /\ deb_value' = prev_reading
           /\ differed_at' = differed_at
           /\ differed_at # None
           /\ time_now' - differed_at[1] > stable_time]_vars
C21_Witness ==
    /\ deb_log # <<>>
    /\ Detected(deb_log[Len(deb_log)], HIGH, LOW)
    /\ differed_at # None
    /\ time_now - differed_at[1] = stable_time + 1
    /\ prev_reading = LOW

\* C22: a debounced change detected by update() is never lost: the next rise() (fall() for a
\* HIGH-to-LOW change) returns True, also when update() calls that leave value unchanged
\* and calls of the other query come between the detecting update() and that call.
Quiet(call, op) == IF call.op = "update" THEN call.from = call.to ELSE call.op # op
ReportedByNext(op, from, to) ==
    \A k \in 1..Len(deb_log) :
        (/\ deb_log[k].op = op
         /\ \E j \in 1..(k - 1) :
               /\ Detected(deb_log[j], from, to)
               /\ \A i \in (j + 1)..(k - 1) : Quiet(deb_log[i], op))
        => deb_log[k].ret
C22_NeverLost ==
    /\ ReportedByNext("rise", LOW, HIGH)
    /\ ReportedByNext("fall", HIGH, LOW)
\* The loss: a change is detected, one more update() finds the same stable reading, and the
\* rise() that follows returns False.
C22_Lost ==
    /\ Len(deb_log) = 4
    /\ Detected(deb_log[2], LOW, HIGH)
    /\ Detected(deb_log[3], HIGH, HIGH)
    /\ deb_log[4].op = "rise" /\ ~deb_log[4].ret
    /\ prev_reading = HIGH

\* C23: process_signal with DOT or DASH appends '.' resp. '-' to current_symbol and leaves
\* current_word unchanged; with MEDIUM_PAUSE it appends exactly one character to current_word,
\* the MORSE_CODE entry of current_symbol or '_' when current_symbol is no valid code (the
\* empty symbol included), and resets current_symbol to ''; with LONG_PAUSE it ends the symbol
\* the same way, prints the word and leaves current_symbol and current_word empty.
Decoded == IF current_symbol \in DOMAIN MORSE_CODE THEN MORSE_CODE[current_symbol] ELSE "_"
C23_ProcessSignal ==
    [][dec_pc = "processing" =>
          /\ signal' = "DOT" =>
                /\ current_symbol' = current_symbol \o "."
                /\ current_word' = current_word
          /\ signal' = "DASH" =>
                /\ current_symbol' = current_symbol \o "-"
                /\ current_word' = current_word
          /\ signal' = "MEDIUM_PAUSE" =>
                /\ current_word' = current_word \o Decoded
                /\ Len(current_word') = Len(current_word) + 1
                /\ current_symbol' = ""
          /\ signal' = "LONG_PAUSE" =>
                /\ emitted' = Some(current_word \o Decoded)
                /\ Len(emitted'[1]) = Len(current_word) + 1
                /\ current_symbol' = ""
                /\ current_word' = ""]_vars
C23_Witness ==
    /\ dec_pc = "processing"
    /\ signal = "LONG_PAUSE"
    /\ emitted = Some("q_")
    /\ current_symbol = ""
    /\ current_word = ""

\* C24: while the button stays released after a release, read_one_signal returns LONG_PAUSE
\* exactly once, at the first poll at which at least 7*interval ms have elapsed since the
\* release, and None on every other poll; the press that ends such a pause does not produce
\* MEDIUM_PAUSE.
StaysReleased == released_at # None /\ deb_value = LOW /\ deb_value' = LOW
PauseIsLong == time_now' - released_at[1] >= 7 * interval * TicksPerMs
ActionName(a) == IF a = 0 THEN "ROCK" ELSE IF a = 1 THEN "SCISSOR" ELSE "PAPER"
Beats(a, b) ==
    <<ActionName(a), ActionName(b)>> \in
        {<<"ROCK", "SCISSOR">>, <<"SCISSOR", "PAPER">>, <<"PAPER", "ROCK">>}
C25_PerformGame ==
    [][(rps_pc = "game" /\ perform_calls' = perform_calls + 1) =>
          IF winner = "None"
          THEN /\ \A i \in 1..2 : players'[i].asked = players[i].asked + 1
               /\ players'[1].told = Append(players[1].told, player2_action'[1])
               /\ players'[2].told = Append(players[2].told, player1_action'[1])
               /\ winner' \in {"P1", "P2", "NEITHER"}
               /\ winner' = "P1" <=> Beats(player1_action'[1], player2_action'[1])
               /\ winner' = "P2" <=> Beats(player2_action'[1], player1_action'[1])
               /\ winner' = "NEITHER" <=> player1_action'[1] = player2_action'[1]
          ELSE UNCHANGED <<playerVars, player1_action, player2_action, winner>>]_vars
C25_Witness ==
    /\ rps_pc = "game"
    /\ perform_calls = 2
    /\ winner = "P2"
    /\ player1_action = Some(ROCK)
    /\ player2_action = Some(PAPER)
    /\ players[2].kind = "MostCommmon"
    /\ players[2].told = <<ROCK, ROCK>>
    /\ players[1].asked = 2

\* C26: in a Tournament, after every arrange_singlegame the lengths of player1_scores and
\* player2_scores both equal games_played and the two scores of each game sum to 1 (1+0,
\* 0+1 or 0.5+0.5); arrange_tournament plays until games_played = number_of_games and
\* never plays more than number_of_games games.
SumsToOne(x, y) == x[1] * y[2] + y[1] * x[2] = x[2] * y[2]
C26_ScoresAndGames ==
    rps_pc \in {"constructed", "tournament", "returned", "raised"} =>
        /\ Len(player1_scores) = games_played
        /\ Len(player2_scores) = games_played
        /\ \A i \in 1..games_played :
              /\ SumsToOne(player1_scores[i], player2_scores[i])
              /\ <<player1_scores[i], player2_scores[i]>> \in
                    {<<<<1, 1>>, <<0, 1>>>>, <<<<0, 1>>, <<1, 1>>>>, <<<<1, 2>>, <<1, 2>>>>}
        /\ games_played <= number_of_games
        /\ rps_pc \in {"returned", "raised"} => games_played = number_of_games
C26_Witness ==
    /\ rps_pc = "returned"
    /\ number_of_games = 3
    /\ games_played = 3
    /\ player1_scores = <<<<1, 2>>, <<1, 1>>, <<0, 1>>>>
    /\ player2_scores = <<<<1, 2>>, <<0, 1>>, <<1, 1>>>>
    /\ players[1].kind = "Historian"
    /\ players[2].kind = "MostCommmon"
====
